---------------------------- MODULE Spec2Model ----------------------------
(***************************************************************************)
(* Tessellation Studio: the edge-constraint functions (applyTriangleEdit,  *)
(* applySquareEdit, applyHexagonEdit), the tile renderers (Triangle,       *)
(* Square, Hexagon, buildSquareDemoTiles) and the App state machine that   *)
(* drives them (shape / mode selection, dragging, demo stepping, effects). *)
(*                                                                         *)
(* Numbers.  The program computes with IEEE doubles on coordinates of the  *)
(* form CENTER + RADIUS*cos(k*pi/6) or CENTER + RADIUS*cos(k*pi/4).  The   *)
(* model computes the same expressions in the real numbers, exactly: a     *)
(* number is (a + b*sqrt(n))/d with integers a, b, d > 0, kept in lowest   *)
(* terms, where the radicand n is 3 for the triangle and the hexagon and 2 *)
(* for the square.  Every operator below that takes a first argument n     *)
(* works in that field.  Rounding error of the doubles is not modelled.    *)
(***************************************************************************)
EXTENDS Integers, Sequences, FiniteSets, TLC

VARIABLES
    shapeType,        \* App: 'triangle' | 'square' | 'hexagon'
    transformType,    \* App: 'rotate90' | 'rotate120' | 'translate' | 'glide'
    triSymmetry,      \* TRI_SYMMETRY ('cw' in App; an argument of the shape functions)
    edgePaths,        \* edge-path map: edge index -> sequence of control points
    activePoint,      \* NoPoint or [edgeIdx, pointIdx]
    demoMode,         \* App: triangle / hexagon demo running
    demoStep,         \* App: step counter of that demo
    demoCenters,      \* App: which list of surrounding centres setDemoCenters received
    squareDemoMode,   \* App: square demo running
    squareDemoStep,   \* App: step counter of the square demo
    pending,          \* effects scheduled by the last commit and not yet run
    call,             \* the last call of an edit function: its arguments (bv: the base
                      \* vertices handed over), the input map, the contents of the
                      \* argument object after the call, and whether the result is
                      \* a new object (fresh)
    range,            \* the `range` prop of the lattice renderers
    tiles,            \* the placements emitted by the last render
    marker,           \* where the last render drew the pivot marker, or NoMarker
    pc                \* position of the specification's driver

vars == << shapeType, transformType, triSymmetry, edgePaths, activePoint,
           demoMode, demoStep, demoCenters, squareDemoMode, squareDemoStep,
           pending, call, range, tiles, marker, pc >>

-----------------------------------------------------------------------------
(* Exact arithmetic in Q(sqrt(n)) *)

Abs(i) == IF i < 0 THEN -i ELSE i

RECURSIVE GCD(_, _)
GCD(i, j) == IF j = 0 THEN i ELSE GCD(j, i % j)

\* (a + b*sqrt(n))/d divided through by g, whose sign is that of d
Reduce(a, b, d, g) == [a |-> a \div g, b |-> b \div g, d |-> d \div g]

Norm(a, b, d) ==
    Reduce(a, b, d, GCD(GCD(Abs(a), Abs(b)), Abs(d)) * (IF d < 0 THEN -1 ELSE 1))

Q(i) == [a |-> i, b |-> 0, d |-> 1]
Frac(i, j) == Norm(i, 0, j)
Root(i, j) == Norm(0, i, j)      \* i*sqrt(n)/j

Add(x, y) == Norm(x.a * y.d + y.a * x.d, x.b * y.d + y.b * x.d, x.d * y.d)
Neg(x) == [a |-> -x.a, b |-> -x.b, d |-> x.d]
Sub(x, y) == Add(x, Neg(y))
Mul(n, x, y) == Norm(x.a * y.a + n * x.b * y.b, x.a * y.b + x.b * y.a, x.d * y.d)
Inv(n, x) ==
    IF x.b = 0 THEN Norm(x.d, 0, x.a)
    ELSE Norm(x.d * x.a, -(x.d * x.b), x.a * x.a - n * x.b * x.b)
Div(n, x, y) == Mul(n, x, Inv(n, y))
IsZero(x) == x.a = 0 /\ x.b = 0

\* sign of (a + b*sqrt(n))/d
Sign(n, x) ==
    IF x.a = 0 /\ x.b = 0 THEN 0
    ELSE IF x.a >= 0 /\ x.b >= 0 THEN 1
    ELSE IF x.a <= 0 /\ x.b <= 0 THEN -1
    ELSE IF x.a > 0 THEN (IF x.a * x.a > n * x.b * x.b THEN 1 ELSE -1)
    ELSE (IF n * x.b * x.b > x.a * x.a THEN 1 ELSE -1)

Less(n, x, y) == Sign(n, Sub(x, y)) = -1
MinOf(n, x, y) == IF Less(n, y, x) THEN y ELSE x
MaxOf(n, x, y) == IF Less(n, x, y) THEN y ELSE x

RECURSIVE ISqrtIn(_, _, _)
ISqrtIn(lo, hi, m) ==      \* the largest k in lo..hi with k*k <= m
    IF lo >= hi THEN lo
    ELSE LET mid == (lo + hi + 1) \div 2
         IN  IF mid * mid <= m THEN ISqrtIn(mid, hi, m) ELSE ISqrtIn(lo, mid - 1, m)

ISqrt(m) == ISqrtIn(0, IF m < 46340 THEN m ELSE 46340, m)
IsSquare(m) == m >= 0 /\ ISqrt(m) * ISqrt(m) = m

\* Math.sqrt of a non-negative rational whose root lies in Q(sqrt(n)):
\* a/d = (a*d)/d^2, and a*d is a square or n times a square.
Sqrt(n, x) ==
    IF IsSquare(x.a * x.d) THEN Frac(ISqrt(x.a * x.d), x.d)
    ELSE Root(ISqrt((x.a * x.d) \div n), x.d)

SqrtDefined(n, x) ==
    /\ x.b = 0 /\ x.a >= 0
    /\ \/ IsSquare(x.a * x.d)
       \/ ((x.a * x.d) % n = 0 /\ IsSquare((x.a * x.d) \div n))

Pt(x, y) == [x |-> x, y |-> y]
PAdd(p, q) == Pt(Add(p.x, q.x), Add(p.y, q.y))
PSub(p, q) == Pt(Sub(p.x, q.x), Sub(p.y, q.y))

-----------------------------------------------------------------------------
(* Constants and base vertices (App) *)

CANVAS_SIZE == 400
PADDING == 80
CENTER == CANVAS_SIZE \div 2
RADIUS == (CANVAS_SIZE - PADDING * 2) \div 2

Shapes == {"triangle", "square", "hexagon"}
Symmetries == {"cw", "ccw"}
SquareModes == {"rotate90", "translate", "glide"}
HexagonModes == {"rotate120", "translate", "glide"}
AllModes == SquareModes \cup HexagonModes

\* the radicand of the field the coordinates of a shape live in
Rad(shape) == IF shape = "square" THEN 2 ELSE 3

\* Math.cos / Math.sin of an angle given in degrees: a multiple of 30 when
\* n = 3, a multiple of 45 when n = 2.
CosDeg(n, deg) ==
    LET r == deg % 360
    IN  CASE r = 0 -> Q(1)
          [] r = 30 \/ r = 330 -> Root(1, 2)
          [] r = 45 \/ r = 315 -> Root(1, 2)
          [] r = 60 \/ r = 300 -> Frac(1, 2)
          [] r = 90 \/ r = 270 -> Q(0)
          [] r = 120 \/ r = 240 -> Frac(-1, 2)
          [] r = 135 \/ r = 225 -> Root(-1, 2)
          [] r = 150 \/ r = 210 -> Root(-1, 2)
          [] r = 180 -> Q(-1)

SinDeg(n, deg) == CosDeg(n, deg + 270)

NumEdges(shape) == IF shape = "square" THEN 4 ELSE IF shape = "hexagon" THEN 6 ELSE 3

StartAngle(shape) == IF shape = "square" THEN 315 ELSE IF shape = "hexagon" THEN 0 ELSE 270

\* getBaseVertices: vertex i at CENTER + RADIUS * (cos, sin)(startAngle + i*360/sides)
getBaseVertices(shape) ==
    LET n == Rad(shape)
        sides == NumEdges(shape)
    IN  [i \in 0..(sides - 1) |->
            LET angle == StartAngle(shape) + (i * 360) \div sides
            IN  Pt(Add(Q(CENTER), Mul(n, Q(RADIUS), CosDeg(n, angle))),
                   Add(Q(CENTER), Mul(n, Q(RADIUS), SinDeg(n, angle))))]

Midpoint(n, a, b) == Pt(Div(n, Add(a.x, b.x), Q(2)), Div(n, Add(a.y, b.y), Q(2)))

\* `x || 1` on a number
OrOne(x) == IF IsZero(x) THEN Q(1) ELSE x

Dot(n, ux, uy, wx, wy) == Add(Mul(n, ux, wx), Mul(n, uy, wy))

NoPoint == [edgeIdx |-> -1, pointIdx |-> -1]

\* no pivot marker among the rendered elements
NoMarker == << >>

\* obj[i] = v on a Record<number, Point[]>
Put(m, i, v) == [k \in (DOMAIN m) \cup {i} |-> IF k = i THEN v ELSE m[k]]

\* arr[i] = v on an array (i at most the length)
PutAt(arr, i, v) ==
    IF i < Len(arr) THEN [arr EXCEPT ![i + 1] = v] ELSE Append(arr, v)

-----------------------------------------------------------------------------
(* Triangle.tsx: edge paths *)

TriDriven == 1
TriPaired(sym) == IF sym = "cw" THEN (TriDriven + 2) % 3 ELSE (TriDriven + 1) % 3
TriSpare(sym) == CHOOSE x \in {0, 1, 2} : x # TriDriven /\ x # TriPaired(sym)

\* makeSymmetric: the two default handles of the spare edge
makeSymmetric(n, a, b) ==
    LET mm == Midpoint(n, a, b)
        ex == Sub(b.x, a.x)
        ey == Sub(b.y, a.y)
        len == OrOne(Sqrt(n, Add(Mul(n, ex, ex), Mul(n, ey, ey))))
        nx == Div(n, Neg(ey), len)
        ny == Div(n, ex, len)
        offset == MaxOf(n, Q(30), Frac(RADIUS * 12, 100))
    IN  << Pt(Add(mm.x, Mul(n, nx, offset)), Add(mm.y, Mul(n, ny, offset))),
           Pt(Sub(mm.x, Mul(n, nx, offset)), Sub(mm.y, Mul(n, ny, offset))) >>

initTrianglePaths(n, baseVertices, sym) ==
    [i \in 0..2 |->
        LET v1 == baseVertices[i]
            v2 == baseVertices[(i + 1) % 3]
        IN  IF i = TriDriven THEN << Midpoint(n, v1, v2) >>
            ELSE IF i = TriSpare(sym) THEN makeSymmetric(n, v1, v2)
            ELSE << Midpoint(n, v1, v2) >>]

\* mutant: the paired point keeps the direction of the driven edge
TriTPaired_SameDirection(t) == t

\* the t of the driven point, the tPaired used for the paired point
TriTPaired(t) == Sub(Q(1), t)

\* the body of drivenPts.map: the paired point of the driven control point cp
TriPairedPoint(n, cp, v0, v1, pv0, pv1) ==
    LET ex == Sub(v1.x, v0.x)
        ey == Sub(v1.y, v0.y)
        edgeLen2 == Add(Mul(n, ex, ex), Mul(n, ey, ey))
        t == IF Sign(n, edgeLen2) = 1
             THEN Div(n, Dot(n, Sub(cp.x, v0.x), Sub(cp.y, v0.y), ex, ey), edgeLen2)
             ELSE Frac(1, 2)
        len == OrOne(Sqrt(n, edgeLen2))
        nx == Div(n, Neg(ey), len)
        ny == Div(n, ex, len)
        d == Dot(n, Sub(cp.x, v0.x), Sub(cp.y, v0.y), nx, ny)
        tPaired == TriTPaired(t)
        pex == Sub(pv1.x, pv0.x)
        pey == Sub(pv1.y, pv0.y)
        baseX == Add(pv0.x, Mul(n, tPaired, pex))
        baseY == Add(pv0.y, Mul(n, tPaired, pey))
        plen == OrOne(Sqrt(n, Add(Mul(n, pex, pex), Mul(n, pey, pey))))
        pnx == Div(n, Neg(pey), plen)
        pny == Div(n, pex, plen)
    IN  Pt(Add(baseX, Mul(n, Neg(d), pnx)), Add(baseY, Mul(n, Neg(d), pny)))

\* mutant: the moved point mirrored through the first vertex of the spare edge
TriMirrorPoint_AboutVertex(n, moved, v0, v1) ==
    Pt(Sub(Mul(n, Q(2), v0.x), moved.x), Sub(Mul(n, Q(2), v0.y), moved.y))

\* the other spare point: the moved one mirrored through the spare midpoint
TriMirrorPoint(n, moved, v0, v1) ==
    LET m == Midpoint(n, v0, v1)
    IN  Pt(Sub(Mul(n, Q(2), m.x), moved.x), Sub(Mul(n, Q(2), m.y), moved.y))

\* `if (activePoint.edgeIdx === driven)`: the paired edge recomputed from the
\* driven edge
TriEditDriven(n, newPaths, active, baseVertices, sym) ==
    IF active.edgeIdx = TriDriven
    THEN Put(newPaths, TriPaired(sym),
             [idx \in 1..Len(newPaths[TriDriven]) |->
                 TriPairedPoint(n, newPaths[TriDriven][idx],
                                baseVertices[TriDriven],
                                baseVertices[(TriDriven + 1) % 3],
                                baseVertices[TriPaired(sym)],
                                baseVertices[(TriPaired(sym) + 1) % 3])])
    ELSE newPaths

\* `if (activePoint.edgeIdx === spare)`: the other handle of the spare edge
\* mirrored from the moved one
TriEditSpare(n, newPaths, active, baseVertices, sym) ==
    IF /\ active.edgeIdx = TriSpare(sym)
       /\ TriSpare(sym) \in DOMAIN newPaths
       /\ Len(newPaths[TriSpare(sym)]) >= 2
    THEN Put(newPaths, TriSpare(sym),
             PutAt(newPaths[TriSpare(sym)],
                   IF active.pointIdx = 0 THEN 1 ELSE 0,
                   TriMirrorPoint(n, newPaths[TriSpare(sym)][active.pointIdx + 1],
                                  baseVertices[TriSpare(sym)],
                                  baseVertices[(TriSpare(sym) + 1) % 3])))
    ELSE newPaths

applyTriangleEdit(n, newPaths, active, baseVertices, sym) ==
    IF active = NoPoint THEN newPaths
    ELSE TriEditSpare(n, TriEditDriven(n, newPaths, active, baseVertices, sym),
                      active, baseVertices, sym)

\* renderTriangleControls: the control points that get a mouse-down handler
TriInteractive(ei, pointIdx, sym) ==
    /\ ei \in {TriDriven, TriPaired(sym), TriSpare(sym)}
    /\ ~(ei = TriPaired(sym))
    /\ ~(ei = TriSpare(sym) /\ pointIdx = 1)

-----------------------------------------------------------------------------
(* Square.tsx: edge paths *)

SqDriven == 3
SqTop == 1
SqLeft == 2
SqRight(sym) == IF sym = "cw" THEN 0 ELSE 2

\* averaging the vertices: baseVertices.reduce(...) / baseVertices.length
Centroid(n, baseVertices) ==
    LET idx == DOMAIN baseVertices
        RECURSIVE SumX(_), SumY(_)
        SumX(i) == IF i \notin idx THEN Q(0) ELSE Add(baseVertices[i].x, SumX(i + 1))
        SumY(i) == IF i \notin idx THEN Q(0) ELSE Add(baseVertices[i].y, SumY(i + 1))
    IN  Pt(Div(n, SumX(0), Q(Cardinality(idx))), Div(n, SumY(0), Q(Cardinality(idx))))

\* mutant: the offset is subtracted from the target midpoint
SqTranslatePoint_Opposite(n, cp, sv0, sv1, tv0, tv1) ==
    LET sm == Midpoint(n, sv0, sv1)
        tm == Midpoint(n, tv0, tv1)
    IN  Pt(Sub(tm.x, Sub(cp.x, sm.x)), Sub(tm.y, Sub(cp.y, sm.y)))

\* translate: midpoint of the target edge plus the offset of cp from the
\* midpoint of its own edge
SqTranslatePoint(n, cp, sv0, sv1, tv0, tv1) ==
    LET sm == Midpoint(n, sv0, sv1)
        tm == Midpoint(n, tv0, tv1)
    IN  Pt(Add(tm.x, Sub(cp.x, sm.x)), Add(tm.y, Sub(cp.y, sm.y)))

\* mutant: cp is mirrored through the centroid and not reflected
SqGlidePoint_MirrorOnly(n, cp, guide, a, b) ==
    Pt(Sub(Mul(n, Q(2), guide.x), cp.x), Sub(Mul(n, Q(2), guide.y), cp.y))

\* glide: cp mirrored through the centroid, then reflected across the line
\* through the target edge's base vertices a, b
SqGlidePoint(n, cp, guide, a, b) ==
    LET mirrored == Pt(Sub(Mul(n, Q(2), guide.x), cp.x), Sub(Mul(n, Q(2), guide.y), cp.y))
        abx == Sub(b.x, a.x)
        aby == Sub(b.y, a.y)
        abLen2 == OrOne(Add(Mul(n, abx, abx), Mul(n, aby, aby)))
        apx == Sub(mirrored.x, a.x)
        apy == Sub(mirrored.y, a.y)
        t == Div(n, Dot(n, apx, apy, abx, aby), abLen2)
        projx == Add(a.x, Mul(n, t, abx))
        projy == Add(a.y, Mul(n, t, aby))
    IN  Pt(Sub(Mul(n, Q(2), projx), mirrored.x), Sub(Mul(n, Q(2), projy), mirrored.y))

\* mutant: the offset is rotated by -Math.PI / 2
SqRotatePoint_Clockwise(n, cp, sv0, sv1, tv0, tv1) ==
    LET sm == Midpoint(n, sv0, sv1)
        tm == Midpoint(n, tv0, tv1)
        vx == Sub(cp.x, sm.x)
        vy == Sub(cp.y, sm.y)
    IN  Pt(Add(tm.x, vy), Sub(tm.y, vx))

\* rotate90: midpoint of the target edge plus the offset of cp from the
\* midpoint of its own edge, rotated by Math.PI / 2
SqRotatePoint(n, cp, sv0, sv1, tv0, tv1) ==
    LET sm == Midpoint(n, sv0, sv1)
        tm == Midpoint(n, tv0, tv1)
        vx == Sub(cp.x, sm.x)
        vy == Sub(cp.y, sm.y)
        rx == Sub(Mul(n, CosDeg(n, 90), vx), Mul(n, SinDeg(n, 90), vy))
        ry == Add(Mul(n, SinDeg(n, 90), vx), Mul(n, CosDeg(n, 90), vy))
    IN  Pt(Add(tm.x, rx), Add(tm.y, ry))

\* mutant: the offset is added to the target's current point (an incremental
\* patch) instead of to the target edge's midpoint
SqEditTop_Drift(n, newPaths, active, bv, sym, mode) ==
    IF active.edgeIdx # SqTop THEN newPaths
    ELSE LET tcp == newPaths[SqTop][1]
             tgt == IF mode = "translate" \/ mode = "glide" THEN SqDriven ELSE SqRight(sym)
             mid == Midpoint(n, bv[tgt], bv[(tgt + 1) % 4])
             fresh == IF mode = "translate"
                      THEN SqTranslatePoint(n, tcp, bv[SqTop], bv[(SqTop + 1) % 4],
                                            bv[tgt], bv[(tgt + 1) % 4])
                      ELSE IF mode = "glide"
                      THEN SqGlidePoint(n, tcp, Centroid(n, bv), bv[tgt], bv[(tgt + 1) % 4])
                      ELSE SqRotatePoint(n, tcp, bv[SqTop], bv[(SqTop + 1) % 4],
                                         bv[tgt], bv[(tgt + 1) % 4])
         IN  Put(newPaths, tgt, << PAdd(newPaths[tgt][1], PSub(fresh, mid)) >>)

\* first block: the top edge is edited
SqEditTop(n, newPaths, active, bv, sym, mode) ==
    IF active.edgeIdx # SqTop THEN newPaths
    ELSE LET tcp == newPaths[SqTop][1]
         IN  IF mode = "translate"
             THEN Put(newPaths, SqDriven,
                      << SqTranslatePoint(n, tcp, bv[SqTop], bv[(SqTop + 1) % 4],
                                          bv[SqDriven], bv[(SqDriven + 1) % 4]) >>)
             ELSE IF mode = "glide"
             THEN Put(newPaths, SqDriven,
                      << SqGlidePoint(n, tcp, Centroid(n, bv),
                                      bv[SqDriven], bv[(SqDriven + 1) % 4]) >>)
             ELSE Put(newPaths, SqRight(sym),
                      << SqRotatePoint(n, tcp, bv[SqTop], bv[(SqTop + 1) % 4],
                                       bv[SqRight(sym)], bv[(SqRight(sym) + 1) % 4]) >>)

\* mutant: the right edge's counterpart is written to the bottom edge
SqEditRight_Bottom(n, newPaths, active, bv, sym, mode) ==
    IF active.edgeIdx # SqRight(sym) THEN newPaths
    ELSE LET rcp == newPaths[SqRight(sym)][1]
         IN  IF mode = "translate"
             THEN Put(newPaths, SqDriven,
                      << SqTranslatePoint(n, rcp, bv[SqRight(sym)], bv[(SqRight(sym) + 1) % 4],
                                          bv[SqLeft], bv[(SqLeft + 1) % 4]) >>)
             ELSE IF mode = "glide"
             THEN Put(newPaths, SqDriven,
                      << SqGlidePoint(n, rcp, Centroid(n, bv),
                                      bv[SqLeft], bv[(SqLeft + 1) % 4]) >>)
             ELSE newPaths

\* second block: the right edge is edited (translate and glide only)
SqEditRight(n, newPaths, active, bv, sym, mode) ==
    IF active.edgeIdx # SqRight(sym) THEN newPaths
    ELSE LET rcp == newPaths[SqRight(sym)][1]
         IN  IF mode = "translate"
             THEN Put(newPaths, SqLeft,
                      << SqTranslatePoint(n, rcp, bv[SqRight(sym)], bv[(SqRight(sym) + 1) % 4],
                                          bv[SqLeft], bv[(SqLeft + 1) % 4]) >>)
             ELSE IF mode = "glide"
             THEN Put(newPaths, SqLeft,
                      << SqGlidePoint(n, rcp, Centroid(n, bv),
                                      bv[SqLeft], bv[(SqLeft + 1) % 4]) >>)
             ELSE newPaths

\* third block: the driven (bottom) edge is edited, in whatever mode
SqEditDriven(n, newPaths, active, bv, sym, mode) ==
    IF active.edgeIdx # SqDriven THEN newPaths
    ELSE IF SqDriven \notin DOMAIN newPaths \/ Len(newPaths[SqDriven]) = 0 THEN newPaths
    ELSE LET drivenPts == newPaths[SqDriven]
             cp == IF Len(drivenPts) >= 2
                   THEN Midpoint(n, drivenPts[1], drivenPts[2])
                   ELSE drivenPts[1]
         IN  Put(newPaths, SqLeft,
                 << SqRotatePoint(n, cp, bv[SqDriven], bv[(SqDriven + 1) % 4],
                                  bv[SqLeft], bv[(SqLeft + 1) % 4]) >>)

applySquareEdit(n, newPaths, active, bv, sym, mode) ==
    IF active = NoPoint THEN newPaths
    ELSE SqEditDriven(n,
             SqEditRight(n,
                 SqEditTop(n, newPaths, active, bv, sym, mode),
                 active, bv, sym, mode),
             active, bv, sym, mode)

\* renderSquareControls: the control points that get a mouse-down handler
SqInteractive(ei, sym, mode, active) ==
    LET paired == IF sym = "cw" THEN (SqDriven + 1) % 4 ELSE (SqDriven + 3) % 4
        free == ~(active # NoPoint /\ active.edgeIdx # ei)
        first == ei # paired /\ free
        second == IF mode = "translate" \/ mode = "glide"
                  THEN (ei = SqTop \/ ei = SqRight(sym)) /\ free
                  ELSE first
    IN  IF mode = "rotate90" /\ ei = SqLeft THEN FALSE ELSE second

-----------------------------------------------------------------------------
(* Hexagon.tsx: edge paths *)

\* computeTD: projection parameter t and signed distance d of p from edge edgeIdx
computeTD(n, bv, edgeIdx, p) ==
    LET v0 == bv[edgeIdx]
        v1 == bv[(edgeIdx + 1) % 6]
        ex == Sub(v1.x, v0.x)
        ey == Sub(v1.y, v0.y)
        len2 == OrOne(Add(Mul(n, ex, ex), Mul(n, ey, ey)))
        t == Div(n, Dot(n, Sub(p.x, v0.x), Sub(p.y, v0.y), ex, ey), len2)
        projx == Add(v0.x, Mul(n, t, ex))
        projy == Add(v0.y, Mul(n, t, ey))
        nx == Neg(ey)
        ny == ex
        nlen == OrOne(Sqrt(n, Add(Mul(n, nx, nx), Mul(n, ny, ny))))
        ndx == Div(n, nx, nlen)
        ndy == Div(n, ny, nlen)
        d == Dot(n, Sub(p.x, projx), Sub(p.y, projy), ndx, ndy)
    IN  [t |-> t, d |-> d]

\* the paired edge of the active edge, or -1 when the edit returns early
HexPaired(ei, mode) ==
    IF mode = "rotate120"
    THEN (IF ei % 2 = 1 THEN (ei + 5) % 6 ELSE -1)
    ELSE (IF ei \in {1, 3, 5} THEN (ei + 3) % 6 ELSE -1)

\* glide: tPaired = t, dPaired = -d
HexGlideTD(n, td) == [t |-> td.t, d |-> Neg(td.d)]

\* base point at paired.t along pv0 -> pv1, offset by paired.d along its normal
HexTargetTD(n, pv0, pv1, paired) ==
    LET pex == Sub(pv1.x, pv0.x)
        pey == Sub(pv1.y, pv0.y)
        plen == OrOne(Sqrt(n, Add(Mul(n, pex, pex), Mul(n, pey, pey))))
        baseX == Add(pv0.x, Mul(n, paired.t, pex))
        baseY == Add(pv0.y, Mul(n, paired.t, pey))
        nx == Div(n, Neg(pey), plen)
        ny == Div(n, pex, plen)
    IN  Pt(Add(baseX, Mul(n, paired.d, nx)), Add(baseY, Mul(n, paired.d, ny)))

\* mutant: rotate120 keeps the side of the edge (dPaired = d)
HexRotateTD_KeepSide(n, td) == [t |-> Sub(Q(1), td.t), d |-> td.d]

\* rotate120: tPaired = 1 - t, dPaired = -d
HexRotateTD(n, td) == [t |-> Sub(Q(1), td.t), d |-> Neg(td.d)]

HexRotateTarget(n, bv, ei, paired, moved) ==
    HexTargetTD(n, bv[paired], bv[(paired + 1) % 6], HexRotateTD(n, computeTD(n, bv, ei, moved)))

\* mutant: translate handled like glide (same t, flipped d)
HexTranslateTarget_KeepT(n, bv, ei, paired, moved) ==
    HexTargetTD(n, bv[paired], bv[(paired + 1) % 6], HexGlideTD(n, computeTD(n, bv, ei, moved)))

HexTranslateTarget(n, bv, ei, paired, moved) ==
    LET mv0 == bv[ei]
        mv1 == bv[(ei + 1) % 6]
        pv0 == bv[paired]
        pv1 == bv[(paired + 1) % 6]
        movedBaseMidX == Add(mv0.x, Mul(n, Sub(mv1.x, mv0.x), Frac(1, 2)))
        movedBaseMidY == Add(mv0.y, Mul(n, Sub(mv1.y, mv0.y), Frac(1, 2)))
        deltaX == Sub(moved.x, movedBaseMidX)
        deltaY == Sub(moved.y, movedBaseMidY)
        pairedMidX == Add(pv0.x, Mul(n, Sub(pv1.x, pv0.x), Frac(1, 2)))
        pairedMidY == Add(pv0.y, Mul(n, Sub(pv1.y, pv0.y), Frac(1, 2)))
    IN  Pt(Add(pairedMidX, deltaX), Add(pairedMidY, deltaY))

\* mutant: glide handled like translate (same offset from the midpoint)
HexGlideTarget_Translate(n, bv, ei, paired, moved) ==
    LET sm == Midpoint(n, bv[ei], bv[(ei + 1) % 6])
        tm == Midpoint(n, bv[paired], bv[(paired + 1) % 6])
    IN  Pt(Add(tm.x, Sub(moved.x, sm.x)), Add(tm.y, Sub(moved.y, sm.y)))

HexGlideTarget(n, bv, ei, paired, moved) ==
    HexTargetTD(n, bv[paired], bv[(paired + 1) % 6], HexGlideTD(n, computeTD(n, bv, ei, moved)))

applyHexagonEdit(n, newPaths, active, bv, mode) ==
    IF active = NoPoint THEN newPaths
    ELSE
    LET ei == active.edgeIdx
    IN  IF ei \notin DOMAIN newPaths \/ Len(newPaths[ei]) = 0 THEN newPaths
        ELSE LET paired == HexPaired(ei, mode)
                 moved == newPaths[ei][active.pointIdx + 1]
             IN  IF paired = -1 THEN newPaths
                 ELSE IF mode = "rotate120"
                      THEN Put(newPaths, paired, << HexRotateTarget(n, bv, ei, paired, moved) >>)
                 ELSE IF mode = "translate"
                      THEN Put(newPaths, paired, << HexTranslateTarget(n, bv, ei, paired, moved) >>)
                 ELSE Put(newPaths, paired, << HexGlideTarget(n, bv, ei, paired, moved) >>)

\* renderHexagonControls: the control points that get a mouse-down handler
HexInteractive(ei, mode) ==
    LET isInteractiveEdge == ei \in {1, 3, 5}
        isPaired == IF mode = "rotate120" THEN ei % 2 = 0 ELSE ~isInteractiveEdge
    IN  isInteractiveEdge /\ ~isPaired

-----------------------------------------------------------------------------
(* App: the effective edge-path map and the pointer-move update *)

EmptyPaths == [i \in {} |-> << >>]

\* the defaults currentEdgePaths fills in
DefaultPaths(shape, sym) ==
    LET n == Rad(shape)
        bv == getBaseVertices(shape)
        numEdges == NumEdges(shape)
    IN  IF shape = "triangle" THEN initTrianglePaths(n, bv, sym)
        ELSE [i \in 0..(numEdges - 1) |-> << Midpoint(n, bv[i], bv[(i + 1) % numEdges]) >>]

\* currentEdgePaths: the stored map, with the default for every missing edge
CurrentEdgePaths(shape, stored, sym) ==
    [i \in (DOMAIN stored) \cup (0..(NumEdges(shape) - 1)) |->
        IF i \in DOMAIN stored THEN stored[i] ELSE DefaultPaths(shape, sym)[i]]

\* mutant: the pointer position is pushed onto the edge's points
WritePoint_Push(cur, active, pos) ==
    Put(cur, active.edgeIdx, Append(cur[active.edgeIdx], pos))

\* newPaths = {...currentEdgePaths}; points[pointIdx] = {x, y}
WritePoint(cur, active, pos) ==
    Put(cur, active.edgeIdx, PutAt(cur[active.edgeIdx], active.pointIdx, pos))

\* the dispatch on shapeType, for the base vertices handed to the edit function
ApplyEditOn(shape, mode, sym, bv, newPaths, active) ==
    IF shape = "triangle" THEN applyTriangleEdit(Rad(shape), newPaths, active, bv, sym)
    ELSE IF shape = "square"
    THEN applySquareEdit(Rad(shape), newPaths, active, bv, sym, mode)
    ELSE applyHexagonEdit(Rad(shape), newPaths, active, bv, mode)

\* The contents of the object passed as newPaths once the call has returned.
\* The edit functions build no map of their own: every write is an
\* assignment `newPaths[k] = ...` (or `pts[otherIdx] = ...` on the array
\* newPaths[spare]) on the argument, and every return is `return newPaths`.
ArgumentAfter(shape, mode, sym, bv, newPaths, active) ==
    ApplyEditOn(shape, mode, sym, bv, newPaths, active)

\* App hands over getBaseVertices() of the current shape
ApplyEdit(shape, mode, sym, newPaths, active) ==
    ApplyEditOn(shape, mode, sym, getBaseVertices(shape), newPaths, active)

\* the updater handleMouseMove passes to setEdgePaths
MoveUpdate(shape, mode, sym, cur, active, pos) ==
    ApplyEdit(shape, mode, sym, WritePoint(cur, active, pos), active)

\* the control points with a mouse-down handler
Interactive(shape, mode, sym, active, ei, pointIdx) ==
    IF shape = "triangle" THEN TriInteractive(ei, pointIdx, sym)
    ELSE IF shape = "square" THEN SqInteractive(ei, sym, mode, active)
    ELSE HexInteractive(ei, mode)

-----------------------------------------------------------------------------
(* SpecEdit: the edit functions as pure functions.  The state is the       *)
(* argument tuple (shape, mode, symmetry) and the edge-path map; an action *)
(* calls the shape's edit function on the current map with any active      *)
(* point (editable or not, or null) and any pointer position.              *)

MaxEdits == 2

Positions == { Pt(Q(230), Q(240)), Pt(Q(170), Q(290)), Pt(Q(200), Q(180)) }

ModesOf(shape) ==
    IF shape = "square" THEN SquareModes
    ELSE IF shape = "hexagon" THEN HexagonModes
    ELSE {"rotate90"}

SymsOf(shape) == IF shape = "hexagon" THEN {"cw"} ELSE Symmetries

NoCall == [active |-> NoPoint, pos |-> Pt(Q(0), Q(0)), before |-> EmptyPaths,
           input |-> EmptyPaths, count |-> 0, bv |-> << >>,
           after |-> EmptyPaths, fresh |-> FALSE]

IdleRest ==
    /\ activePoint = NoPoint
    /\ demoMode = FALSE /\ demoStep = 0 /\ demoCenters = "none"
    /\ squareDemoMode = FALSE /\ squareDemoStep = 0
    /\ pending = {}
    /\ range = 0 /\ tiles = << >> /\ marker = NoMarker

InitEdit ==
    /\ shapeType \in Shapes
    /\ transformType \in ModesOf(shapeType)
    /\ triSymmetry \in SymsOf(shapeType)
    /\ edgePaths = DefaultPaths(shapeType, triSymmetry)
    /\ call = [NoCall EXCEPT !.bv = getBaseVertices(shapeType)]
    /\ pc = "edit"
    /\ IdleRest

UnchangedByEdit ==
    UNCHANGED << shapeType, transformType, triSymmetry, activePoint, demoMode, demoStep,
                 demoCenters, squareDemoMode, squareDemoStep, pending, range, tiles, marker,
                 pc >>

\* write a pointer position into a control point and call the edit function
EditCall(e, i, pos) ==
    /\ pc = "edit"
    /\ call.count < MaxEdits
    /\ e \in DOMAIN edgePaths
    /\ i \in 0..(Len(edgePaths[e]) - 1)
    /\ LET active == [edgeIdx |-> e, pointIdx |-> i]
           input == WritePoint(edgePaths, active, pos)
       IN  /\ edgePaths' = ApplyEditOn(shapeType, transformType, triSymmetry, call.bv,
                                        input, active)
           /\ call' = [active |-> active, pos |-> pos, before |-> edgePaths,
                       input |-> input, count |-> call.count + 1, bv |-> call.bv,
                       after |-> ArgumentAfter(shapeType, transformType, triSymmetry,
                                               call.bv, input, active),
                       fresh |-> FALSE]
    /\ UnchangedByEdit

\* call the edit function with activePoint = null
EditNull ==
    /\ pc = "edit"
    /\ call.count < MaxEdits
    /\ edgePaths' = ApplyEditOn(shapeType, transformType, triSymmetry, call.bv,
                                 edgePaths, NoPoint)
    /\ call' = [active |-> NoPoint, pos |-> NoCall.pos, before |-> edgePaths,
                input |-> edgePaths, count |-> call.count + 1, bv |-> call.bv,
                after |-> ArgumentAfter(shapeType, transformType, triSymmetry,
                                        call.bv, edgePaths, NoPoint),
                fresh |-> FALSE]
    /\ UnchangedByEdit

NextEdit ==
    \/ \E e \in 0..5, i \in 0..1, pos \in Positions : EditCall(e, i, pos)
    \/ EditNull

SpecEdit == InitEdit /\ [][NextEdit]_vars

-----------------------------------------------------------------------------
(* Renderer geometry used by the edit claims *)

\* rotatePoint: p rotated by angleDeg about c (y axis pointing down)
RotatePoint(n, p, angleDeg, c) ==
    LET dx == Sub(p.x, c.x)
        dy == Sub(p.y, c.y)
        rx == Sub(Mul(n, CosDeg(n, angleDeg), dx), Mul(n, SinDeg(n, angleDeg), dy))
        ry == Add(Mul(n, SinDeg(n, angleDeg), dx), Mul(n, CosDeg(n, angleDeg), dy))
    IN  Pt(Add(c.x, rx), Add(c.y, ry))

\* Triangle: pivotX, pivotY and rotDir
TrianglePivot(sym) ==
    LET hs == Mul(3, Q(RADIUS), Root(1, 2))
    IN  Pt(IF sym = "cw" THEN Add(Q(CENTER), hs) ELSE Sub(Q(CENTER), hs),
           Add(Q(CENTER), Frac(RADIUS, 2)))

TriRotDir(sym) == IF sym = "cw" THEN 1 ELSE -1

\* (t, d) of p relative to the segment a -> b: t along the segment, d along
\* the unit normal (-ey, ex)/len
ParamsOf(n, p, a, b) ==
    LET ex == Sub(b.x, a.x)
        ey == Sub(b.y, a.y)
        len2 == Add(Mul(n, ex, ex), Mul(n, ey, ey))
        len == Sqrt(n, len2)
    IN  [t |-> Div(n, Dot(n, Sub(p.x, a.x), Sub(p.y, a.y), ex, ey), len2),
         d |-> Div(n, Dot(n, Sub(p.x, a.x), Sub(p.y, a.y), Neg(ey), ex), len)]

-----------------------------------------------------------------------------
(* Claims about the edit functions (SpecEdit) *)

Called == call.count > 0
Edited == Called /\ call.active # NoPoint
BV == getBaseVertices(shapeType)
NF == Rad(shapeType)
EdgeMid(e) == Midpoint(NF, BV[e], BV[(e + 1) % NumEdges(shapeType)])

\* C1: Triangle, both chiralities: after an edit of the driven edge (1),
\* every driven control point p with parameters (t, d) has on the paired
\* edge (0 under cw, 2 under ccw) the point with parameters (1 - t, -d), and
\* that point is p rotated by rotDir*60 degrees about the renderer's pivot,
\* which is vertex 1 under cw and vertex 2 under ccw.
C1_TrianglePairedIsRotatedDriven ==
    (shapeType = "triangle" /\ Edited /\ call.active.edgeIdx = TriDriven) =>
        LET paired == TriPaired(triSymmetry)
            pivot == TrianglePivot(triSymmetry)
        IN  /\ paired = (IF triSymmetry = "cw" THEN 0 ELSE 2)
            /\ pivot = (IF triSymmetry = "cw" THEN BV[1] ELSE BV[2])
            /\ Len(edgePaths[paired]) = Len(edgePaths[TriDriven])
            /\ \A k \in 1..Len(edgePaths[TriDriven]) :
                  LET p == edgePaths[TriDriven][k]
                      q == edgePaths[paired][k]
                      td == ParamsOf(NF, p, BV[TriDriven], BV[(TriDriven + 1) % 3])
                      tq == ParamsOf(NF, q, BV[paired], BV[(paired + 1) % 3])
                  IN  /\ tq.t = Sub(Q(1), td.t)
                      /\ tq.d = Neg(td.d)
                      /\ q = RotatePoint(NF, p, TriRotDir(triSymmetry) * 60, pivot)

C1_Witness ==
    /\ shapeType = "triangle" /\ triSymmetry = "ccw"
    /\ Edited /\ call.active.edgeIdx = TriDriven
    /\ call.pos = Pt(Q(230), Q(240))
    /\ edgePaths[TriDriven] = << call.pos >>
    /\ edgePaths[2] # call.before[2]

\* the edges whose control points the edit controls make interactive
EditableEdge(e) ==
    \E i \in 0..1 : Interactive(shapeType, transformType, triSymmetry, NoPoint, e, i)

\* C2: an edit whose active point is null, or whose active edge is not an
\* editable edge of the current shape and mode, returns its input map.
C2_NonEditableIsNoOp ==
    (Called /\ (call.active = NoPoint \/ ~EditableEdge(call.active.edgeIdx)))
        => edgePaths = call.input

C6_EditIdempotent ==
    Edited => MoveUpdate(shapeType, transformType, triSymmetry,
                         edgePaths, call.active, call.pos) = edgePaths

C6_Witness ==
    /\ Edited /\ call.count = 2
    /\ shapeType = "square" /\ transformType = "rotate90"
    /\ call.active.edgeIdx = SqTop
    /\ call.before[SqTop] # << call.pos >>
    /\ edgePaths # call.before

\* C7: Triangle: an edit of spare point i at P leaves P in place, puts
\* 2*M - P in the other spare point (M the midpoint of the spare base
\* segment) and leaves the driven and paired edges as they were.
C7_SpareMirror ==
    (shapeType = "triangle" /\ Edited /\ call.active.edgeIdx = TriSpare(triSymmetry)) =>
        LET spare == TriSpare(triSymmetry)
            i == call.active.pointIdx
            o == IF i = 0 THEN 1 ELSE 0
            m == EdgeMid(spare)
        IN  /\ Len(edgePaths[spare]) = 2
            /\ edgePaths[spare][i + 1] = call.pos
            /\ edgePaths[spare][o + 1] =
                   Pt(Sub(Add(m.x, m.x), call.pos.x), Sub(Add(m.y, m.y), call.pos.y))
            /\ edgePaths[TriDriven] = call.before[TriDriven]
            /\ edgePaths[TriPaired(triSymmetry)] = call.before[TriPaired(triSymmetry)]

C7_Witness ==
    /\ shapeType = "triangle" /\ triSymmetry = "cw" /\ Edited
    /\ call.active = [edgeIdx |-> 2, pointIdx |-> 0]
    /\ call.pos = Pt(Q(170), Q(290))
    /\ edgePaths[2][2] # call.before[2][2]
    /\ call.before[1] # DefaultPaths("triangle", "cw")[1]

\* C8: Hexagon translate: an edit of edge i in {1, 3, 5} at (midpoint of
\* edge i) + delta sets edge (i + 3) mod 6 to (its midpoint) + delta and
\* changes no other edge.
C8_HexTranslate ==
    (shapeType = "hexagon" /\ transformType = "translate" /\ Edited
        /\ call.active.edgeIdx \in {1, 3, 5}) =>
        LET e == call.active.edgeIdx
            o == (e + 3) % 6
            delta == PSub(call.pos, EdgeMid(e))
        IN  /\ DOMAIN edgePaths = DOMAIN call.before
            /\ edgePaths[e] = << call.pos >>
            /\ edgePaths[o] = << PAdd(EdgeMid(o), delta) >>
            /\ \A k \in DOMAIN edgePaths : (k # e /\ k # o) => edgePaths[k] = call.before[k]

C8_Witness ==
    /\ shapeType = "hexagon" /\ transformType = "translate" /\ Edited
    /\ call.active.edgeIdx = 1 /\ call.pos = Pt(Q(230), Q(240))
    /\ edgePaths[4] = << PAdd(EdgeMid(4), PSub(call.pos, EdgeMid(1))) >>
    /\ edgePaths[4] # call.before[4]

-----------------------------------------------------------------------------
(* Demo centres and step helpers *)

\* the cells of `for (row = lo; row <= hi; row++) for (col = lo; col <= hi; col++)`
\* in loop order
Cells(lo, hi) ==
    LET w == hi - lo + 1
    IN  IF w <= 0 THEN << >>
        ELSE [k \in 1..(w * w) |-> [row |-> lo + (k - 1) \div w, col |-> lo + ((k - 1) % w)]]

\* `if (row === 0 && col === 0) continue`
NotOrigin(cell) == ~(cell.row = 0 /\ cell.col = 0)

\* Math.hypot(cx, cy) squared; hypot orders centres as its square does
Hypot2(n, c) == Add(Mul(n, c.cx, c.cx), Mul(n, c.cy, c.cy))

\* the sequence s with every element computed (TLC keeps [i \in S |-> e]
\* as a rule and recomputes e at each application)
Evaluated(s) == SubSeq(s, 1, Len(s))

\* Array.prototype.sort on records [key, item], ascending by key; the sort is
\* stable, so items with equal keys keep their order.  before[i] counts the
\* items that end up in front of item i.
SortRanks(n, s) ==
    Evaluated([i \in 1..Len(s) |->
                  Cardinality({j \in 1..Len(s) :
                      \/ Less(n, s[j].key, s[i].key)
                      \/ (j < i /\ ~Less(n, s[i].key, s[j].key))})])

SortPlace(s, before) ==
    Evaluated([p \in 1..Len(s) |-> s[CHOOSE i \in 1..Len(s) : before[i] = p - 1]])

SortByKey(n, s) == SortPlace(Evaluated(s), SortRanks(n, Evaluated(s)))

\* centers.sort((a, b) => Math.hypot(a.cx, a.cy) - Math.hypot(b.cx, b.cy));
\* SortByHypot_Unsorted leaves the centres in enumeration order
SortByHypot_Unsorted(n, centers) == centers

SortByHypot(n, centers) ==
    LET keyed == [i \in 1..Len(centers) |->
                     [key |-> Hypot2(n, centers[i]), item |-> centers[i]]]
        sorted == SortByKey(n, keyed)
    IN  [i \in 1..Len(sorted) |-> sorted[i].item]

\* Triangle: s = RADIUS * sqrt(3), stepX = s * 1.5, stepY = s * sqrt(3)
TriSide == Mul(3, Q(RADIUS), Root(1, 1))
TriStepX == Mul(3, TriSide, Frac(3, 2))
TriStepY == Mul(3, TriSide, Root(1, 1))

\* the `%` of the source language: the remainder takes the sign of the dividend
Rem(i, j) == IF i >= 0 THEN i % j ELSE -((-i) % j)

\* mutant: only columns with remainder 1 are shifted (col % 2 === 1)
TriCenter_PositiveOdd(cell) ==
    [cx |-> Mul(3, Q(cell.col), TriStepX),
     cy |-> Add(Mul(3, Q(cell.row), TriStepY),
                IF Rem(cell.col, 2) = 1 THEN Div(3, TriStepY, Q(2)) ELSE Q(0))]

\* hexCX = col * stepX, hexCY = row * stepY + (col % 2 !== 0 ? stepY / 2 : 0)
TriCenter(cell) ==
    [cx |-> Mul(3, Q(cell.col), TriStepX),
     cy |-> Add(Mul(3, Q(cell.row), TriStepY),
                IF Rem(cell.col, 2) # 0 THEN Div(3, TriStepY, Q(2)) ELSE Q(0))]

\* startDemo (Triangle): the centres of the cells -4..4 without the origin,
\* nearest first
TriDemoRange == 4
startDemo ==
    LET cells == SelectSeq(Cells(-TriDemoRange, TriDemoRange), NotOrigin)
    IN  SortByHypot(3, [i \in 1..Len(cells) |-> TriCenter(cells[i])])

\* startHexagonDemo, rotate120: (0, -n*step), (0, n*step) for n = 1..maxN,
\* sorted by |cy|
HexDemoMaxN == 20
startHexagonDemoRotate ==
    LET step == 3 * RADIUS
        centers == [k \in 1..(2 * HexDemoMaxN) |->
                       LET n == (k + 1) \div 2
                       IN  [cx |-> Q(0), cy |-> Q(IF k % 2 = 1 THEN -(n * step) ELSE n * step)]]
        keyed == [i \in 1..Len(centers) |->
                     [key |-> Q(Abs(centers[i].cy.a)), item |-> centers[i]]]
        sorted == SortByKey(3, keyed)
    IN  [i \in 1..Len(sorted) |-> sorted[i].item]

\* startHexagonDemo, translate and glide: col * v0 + row * v1 over the cells
\* -4..4 without the origin, nearest first
HexDemoRange == 4
startHexagonDemoGrid ==
    LET bv == [i \in 0..5 |-> Pt(Mul(3, Q(RADIUS), CosDeg(3, i * 60)),
                                 Mul(3, Q(RADIUS), SinDeg(3, i * 60)))]
        m0 == Midpoint(3, bv[0], bv[1])
        m1 == Midpoint(3, bv[1], bv[2])
        v0 == Pt(Mul(3, Q(6), m0.x), Mul(3, Q(6), m0.y))
        v1 == Pt(Mul(3, Q(6), m1.x), Mul(3, Q(6), m1.y))
        cells == SelectSeq(Cells(-HexDemoRange, HexDemoRange), NotOrigin)
    IN  SortByHypot(3, [i \in 1..Len(cells) |->
            [cx |-> Add(Mul(3, Q(cells[i].col), v0.x), Mul(3, Q(cells[i].row), v1.x)),
             cy |-> Add(Mul(3, Q(cells[i].col), v0.y), Mul(3, Q(cells[i].row), v1.y))]])

\* the centre lists setDemoCenters can have received, by name
CenterKinds == {"none", "triangle", "hexRotate", "hexGrid"}

DemoCentersOf(kind) ==
    IF kind = "triangle" THEN startDemo
    ELSE IF kind = "hexRotate" THEN startHexagonDemoRotate
    ELSE IF kind = "hexGrid" THEN startHexagonDemoGrid
    ELSE << >>

\* demoCenters.length
TriDemoLength == Len(startDemo)
HexRotateDemoLength == Len(startHexagonDemoRotate)
HexGridDemoLength == Len(startHexagonDemoGrid)
DemoCentersLength(kind) ==
    IF kind = "triangle" THEN TriDemoLength
    ELSE IF kind = "hexRotate" THEN HexRotateDemoLength
    ELSE IF kind = "hexGrid" THEN HexGridDemoLength
    ELSE 0

Min(i, j) == IF i < j THEN i ELSE j
Max(i, j) == IF i > j THEN i ELSE j

\* the upper clamp of nextHexagonStep
HexStepCap == 3 + 80

nextTriangleStep(prev) == Min(prev + 1, 6 + 80)
prevTriangleStep(prev) == Max(prev - 1, 0)
nextHexagonStep(prev) == Min(prev + 1, HexStepCap)
prevHexagonStep(prev) == Max(prev - 1, 1)
nextSquareStep(prev) == Min(prev + 1, 4 + 80)
prevSquareStep(prev) == Max(prev - 1, 1)

\* triangleAutoAdvance: the step it leaves in demoStep;
\* triangleAutoAdvance_Early fast-forwards as soon as the step exceeds 6
triangleAutoAdvance_Early(mode, step, demoCentersLength) ==
    IF ~mode THEN step
    ELSE IF step <= 6 THEN step
    ELSE IF demoCentersLength >= 13 THEN 6 + demoCentersLength
    ELSE step

triangleAutoAdvance(mode, step, demoCentersLength) ==
    IF ~mode THEN step
    ELSE IF step <= 12 THEN step
    ELSE IF demoCentersLength >= 13
         THEN (IF step # 6 + demoCentersLength THEN 6 + demoCentersLength ELSE step)
         ELSE step

-----------------------------------------------------------------------------
(* App: demo controls and the fast-forward effect.  An effect whose        *)
(* dependencies changed in a commit is in `pending` until it has run; the  *)
(* user's next event is handled only when no effect is pending.            *)

\* the effect on [demoMode, demoStep, demoCenters.length] is scheduled when
\* one of them changes
AutoDeps(m, st, k) == << m, st, DemoCentersLength(k) >>
SchedAuto(m, st, k) ==
    IF AutoDeps(m, st, k) # AutoDeps(demoMode, demoStep, demoCenters)
    THEN pending \cup {"auto"} ELSE pending

UnchangedEditor ==
    UNCHANGED << triSymmetry, edgePaths, activePoint, call, range, tiles, marker, pc >>

\* toolbar button, shown while demoMode is false
StartDemo ==
    /\ pending = {} /\ activePoint = NoPoint
    /\ ~demoMode
    /\ IF shapeType = "square"
       THEN /\ squareDemoMode' = TRUE
            /\ squareDemoStep' = 1
            /\ UNCHANGED << demoMode, demoStep, demoCenters, pending >>
       ELSE LET kind == IF shapeType = "triangle" THEN "triangle"
                        ELSE IF transformType = "rotate120" THEN "hexRotate"
                        ELSE "hexGrid"
            IN  /\ demoCenters' = kind
                /\ demoMode' = TRUE
                /\ demoStep' = 1
                /\ pending' = SchedAuto(TRUE, 1, kind)
                /\ UNCHANGED << squareDemoMode, squareDemoStep >>
    /\ UNCHANGED << shapeType, transformType >>
    /\ UnchangedEditor

\* handleStopDemo, shown while demoMode
StopDemo ==
    /\ pending = {} /\ demoMode
    /\ demoMode' = FALSE
    /\ demoStep' = 0
    /\ pending' = SchedAuto(FALSE, 0, demoCenters)
    /\ UNCHANGED << shapeType, transformType, demoCenters, squareDemoMode, squareDemoStep >>
    /\ UnchangedEditor

\* nextDemoStep / prevDemoStep, shown while demoMode
SetDemoStep(st) ==
    /\ demoStep' = st
    /\ pending' = SchedAuto(demoMode, st, demoCenters)
    /\ UNCHANGED << shapeType, transformType, demoMode, demoCenters,
                    squareDemoMode, squareDemoStep >>
    /\ UnchangedEditor

NextDemoStep ==
    /\ pending = {} /\ demoMode
    /\ SetDemoStep(IF shapeType = "hexagon" THEN nextHexagonStep(demoStep)
                   ELSE nextTriangleStep(demoStep))

PrevDemoStep ==
    /\ pending = {} /\ demoMode
    /\ SetDemoStep(IF shapeType = "hexagon" THEN prevHexagonStep(demoStep)
                   ELSE prevTriangleStep(demoStep))

\* the square demo's own buttons, shown while squareDemoMode
SetSquareDemo(m, st) ==
    /\ squareDemoMode' = m
    /\ squareDemoStep' = st
    /\ UNCHANGED << shapeType, transformType, demoMode, demoStep, demoCenters, pending >>
    /\ UnchangedEditor

NextSquareStep ==
    /\ pending = {} /\ squareDemoMode
    /\ SetSquareDemo(TRUE, nextSquareStep(squareDemoStep))

PrevSquareStep ==
    /\ pending = {} /\ squareDemoMode
    /\ SetSquareDemo(TRUE, prevSquareStep(squareDemoStep))

StopSquareDemo ==
    /\ pending = {} /\ squareDemoMode
    /\ SetSquareDemo(FALSE, 0)

\* useEffect(() => triangleAutoAdvance(...), [demoMode, demoStep, demoCenters.length])
EffectAuto ==
    /\ "auto" \in pending
    /\ "shape" \notin pending /\ "transform" \notin pending
    /\ LET st == triangleAutoAdvance(demoMode, demoStep, DemoCentersLength(demoCenters))
       IN  /\ demoStep' = st
           /\ pending' = IF st # demoStep THEN pending ELSE pending \ {"auto"}
    /\ UNCHANGED << shapeType, transformType, demoMode, demoCenters,
                    squareDemoMode, squareDemoStep >>
    /\ UnchangedEditor

-----------------------------------------------------------------------------
(* SpecDemo: one shape and mode, the demo buttons and the fast-forward     *)
(* effect.                                                                 *)

AppModesOf(shape) ==
    IF shape = "square" THEN SquareModes
    ELSE IF shape = "hexagon" THEN HexagonModes
    ELSE AllModes

InitDemo ==
    /\ shapeType \in Shapes
    /\ transformType \in AppModesOf(shapeType)
    /\ triSymmetry = "cw"
    /\ edgePaths = EmptyPaths
    /\ activePoint = NoPoint
    /\ demoMode = FALSE /\ demoStep = 0 /\ demoCenters = "none"
    /\ squareDemoMode = FALSE /\ squareDemoStep = 0
    /\ pending = {}
    /\ call = NoCall
    /\ range = 0 /\ tiles = << >> /\ marker = NoMarker
    /\ pc = "demo"

NextDemo ==
    \/ StartDemo
    \/ StopDemo
    \/ NextDemoStep
    \/ PrevDemoStep
    \/ NextSquareStep
    \/ PrevSquareStep
    \/ StopSquareDemo
    \/ EffectAuto

SpecDemo == InitDemo /\ [][NextDemo]_vars

\* the lowest step `previous` leaves and the number of assembly steps
MinStep(shape) == IF shape = "triangle" THEN 0 ELSE 1
AssemblyStepCount(shape) ==
    IF shape = "triangle" THEN 6 ELSE IF shape = "square" THEN 4 ELSE 3

\* C3: in every demo the step counter stays within
\* [minStep, assemblyStepCount + 80] of the demo's shape.
C3_StepWithinBounds ==
    /\ demoMode => /\ demoStep >= MinStep(shapeType)
                   /\ demoStep <= AssemblyStepCount(shapeType) + 80
    /\ squareDemoMode => /\ squareDemoStep >= MinStep("square")
                         /\ squareDemoStep <= AssemblyStepCount("square") + 80

-----------------------------------------------------------------------------
(* The tile renderers.  A tile is one <path d={tilePathData}> element: the *)
(* translation, rotation and mirror flags of its transform attribute and   *)
(* its fill; a missing translate() is the zero translation, a missing      *)
(* rotate() is angle 0 with NoPivot.  The pivot marker (a <g> with two     *)
(* circles and a label) is not a tile.                                     *)

NoPivot == << >>

Tile(tx, ty, angle, pivot, flipH, flipV, fill) ==
    [tx |-> tx, ty |-> ty, angle |-> angle, pivot |-> pivot,
     flipH |-> flipH, flipV |-> flipV, fill |-> fill]

\* the `range = 12` default of the lattice renderers
DefaultRange == 12

\* the cells of `for (row = -range; row < range; row++) for (col = -range; col < range; col++)`
LatticeCells(r) == Cells(-r, r - 1)

\* Triangle: wedge k of the hexagon centred at (cx, cy):
\* translate(cx - pivotX, cy - pivotY) rotate(k * rotDir * 60, pivotX, pivotY)
TriTile(sym, center, k) ==
    Tile(Sub(center.cx, TrianglePivot(sym).x), Sub(center.cy, TrianglePivot(sym).y),
         k * TriRotDir(sym) * 60, TrianglePivot(sym), FALSE, FALSE,
         IF k % 2 = 0 THEN "A" ELSE "B")

\* the six wedges of every centre, centre by centre
TriPatchTiles(sym, centers) ==
    [j \in 1..(6 * Len(centers)) |-> TriTile(sym, centers[((j - 1) \div 6) + 1], (j - 1) % 6)]

\* mutant: once the surrounding motifs appear the centre motif is dropped
TriangleDemo_WithoutCentre(sym, step, centers) ==
    IF step > 6
    THEN TriPatchTiles(sym, SubSeq(centers, 1, Min(step - 6, Len(centers))))
    ELSE [k \in 1..Min(6, step) |-> TriTile(sym, [cx |-> Q(0), cy |-> Q(0)], k - 1)]

\* Triangle, demoMode branch
TriangleDemo(sym, step, centers) ==
    [k \in 1..Min(6, step) |-> TriTile(sym, [cx |-> Q(0), cy |-> Q(0)], k - 1)]
    \o (IF step > 6
        THEN TriPatchTiles(sym, SubSeq(centers, 1, Min(step - 6, Len(centers))))
        ELSE << >>)

\* Triangle: the pivot marker, drawn at (pivotX + tx0, pivotY + ty0) in demo
\* mode while 1 <= demoStep <= 6
TriangleMarker(sym, mode, step) ==
    IF mode /\ step >= 1 /\ step <= 6
    THEN Pt(Add(TrianglePivot(sym).x, Sub(Q(0), TrianglePivot(sym).x)),
            Add(TrianglePivot(sym).y, Sub(Q(0), TrianglePivot(sym).y)))
    ELSE NoMarker

\* Triangle, lattice branch
TriangleLattice(sym, r) ==
    TriPatchTiles(sym, [i \in 1..Len(LatticeCells(r)) |-> TriCenter(LatticeCells(r)[i])])

\* the Triangle component
Triangle(sym, mode, step, centers, r) ==
    IF mode THEN TriangleDemo(sym, step, centers) ELSE TriangleLattice(sym, r)

\* Square: the base vertices both square renderers work on
SqBV == getBaseVertices("square")

SumXY(v) == Add(v.x, v.y)

\* Square component: `if (s > maxSum) { pivot = v; maxSum = s; }` over the vertices
SquarePivot ==
    LET pick(p, v) == IF Less(2, SumXY(p), SumXY(v)) THEN v ELSE p
    IN  pick(pick(pick(pick(SqBV[0], SqBV[0]), SqBV[1]), SqBV[2]), SqBV[3])

\* buildSquareDemoTiles: `if (v.x + v.y < pivot.x + pivot.y) pivot = v` over the vertices
SqDemoPivot ==
    LET pick(p, v) == IF Less(2, SumXY(v), SumXY(p)) THEN v ELSE p
    IN  pick(pick(pick(pick(SqBV[0], SqBV[0]), SqBV[1]), SqBV[2]), SqBV[3])

\* the largest (hi) or smallest element of a non-empty sequence of numbers
Extreme(n, xs, hi) ==
    CHOOSE x \in {xs[i] : i \in 1..Len(xs)} :
        \A i \in 1..Len(xs) : IF hi THEN ~Less(n, x, xs[i]) ELSE ~Less(n, xs[i], x)

\* Math.max(1, maxX - minX), Math.max(1, maxY - minY) over the points
SqExtent(pts) ==
    [w |-> MaxOf(2, Q(1), Sub(Extreme(2, [i \in 1..Len(pts) |-> pts[i].x], TRUE),
                              Extreme(2, [i \in 1..Len(pts) |-> pts[i].x], FALSE))),
     h |-> MaxOf(2, Q(1), Sub(Extreme(2, [i \in 1..Len(pts) |-> pts[i].y], TRUE),
                              Extreme(2, [i \in 1..Len(pts) |-> pts[i].y], FALSE)))]

\* baseW, baseH: the extent of the base tile
SqBaseSize == SqExtent([j \in 1..4 |-> SqBV[j - 1]])

\* width, height: the extent of the base tile for translate / glide, of the
\* four copies rotated by 0, 90, 180, 270 about the pivot otherwise
SqPatchSize(mode, pivot) ==
    IF mode \in {"translate", "glide"} THEN SqBaseSize
    ELSE SqExtent([j \in 1..16 |->
                      RotatePoint(2, SqBV[(j - 1) % 4], ((j - 1) \div 4) * 90, pivot)])

\* mutant: the glide pieces filled in list order A, B, A, B
GlidePiece_InListOrder(i, size) ==
    CASE i = 0 -> [dx |-> Q(0), dy |-> Q(0), flipH |-> FALSE, flipV |-> FALSE, fill |-> "A"]
      [] i = 1 -> [dx |-> Q(0), dy |-> Neg(size.h), flipH |-> TRUE, flipV |-> FALSE, fill |-> "B"]
      [] i = 2 -> [dx |-> Neg(size.w), dy |-> Q(0), flipH |-> FALSE, flipV |-> TRUE, fill |-> "A"]
      [] i = 3 -> [dx |-> Neg(size.w), dy |-> Neg(size.h), flipH |-> TRUE, flipV |-> TRUE, fill |-> "B"]

\* glidePieces[i] for a piece of size w x h
GlidePiece(i, size) ==
    CASE i = 0 -> [dx |-> Q(0), dy |-> Q(0), flipH |-> FALSE, flipV |-> FALSE, fill |-> "A"]
      [] i = 1 -> [dx |-> Q(0), dy |-> Neg(size.h), flipH |-> TRUE, flipV |-> FALSE, fill |-> "B"]
      [] i = 2 -> [dx |-> Neg(size.w), dy |-> Q(0), flipH |-> FALSE, flipV |-> TRUE, fill |-> "B"]
      [] i = 3 -> [dx |-> Neg(size.w), dy |-> Neg(size.h), flipH |-> TRUE, flipV |-> TRUE, fill |-> "A"]

\* patchOffsets[i] (offsets[i] in the demo) for a piece of size w x h
PatchOffset(i, size) ==
    CASE i = 0 -> [dx |-> Q(0), dy |-> Q(0), flipH |-> FALSE, flipV |-> FALSE, fill |-> "A"]
      [] i = 1 -> [dx |-> Q(0), dy |-> Neg(size.h), flipH |-> FALSE, flipV |-> FALSE, fill |-> "B"]
      [] i = 2 -> [dx |-> Neg(size.w), dy |-> Neg(size.h), flipH |-> FALSE, flipV |-> FALSE, fill |-> "A"]
      [] i = 3 -> [dx |-> Neg(size.w), dy |-> Q(0), flipH |-> FALSE, flipV |-> FALSE, fill |-> "B"]

\* a translated (and mirrored) piece: translate(tx + dx, ty + dy) [scale about the centroid]
SqShifted(tx, ty, piece) ==
    Tile(Add(tx, piece.dx), Add(ty, piece.dy), 0, NoPivot, piece.flipH, piece.flipV, piece.fill)

\* piece i of the patch drawn at (tx, ty)
SqPieceTile(mode, tx, ty, i, size, pivot) ==
    IF mode = "glide" THEN SqShifted(tx, ty, GlidePiece(i, size))
    ELSE IF mode = "translate" THEN SqShifted(tx, ty, PatchOffset(i, size))
    ELSE Tile(tx, ty, i * 90, pivot, FALSE, FALSE, IF i % 2 = 0 THEN "A" ELSE "B")

\* the pieces of every patch centre, centre by centre, `count` pieces each
SqPatchTiles(mode, centers, count, size, pivot) ==
    [j \in 1..(count * Len(centers)) |->
        SqPieceTile(mode, centers[((j - 1) \div count) + 1].cx,
                    centers[((j - 1) \div count) + 1].cy, (j - 1) % count, size, pivot)]

\* Square component: stepX, stepY
SqStep(mode) ==
    IF mode \in {"translate", "glide"}
    THEN [w |-> Mul(2, SqBaseSize.w, Q(2)), h |-> Mul(2, SqBaseSize.h, Q(2))]
    ELSE SqPatchSize(mode, SquarePivot)

\* Square component: tx = c * stepX - CENTER, ty = r * stepY - CENTER
SqCellOrigin(cell, step) ==
    [cx |-> Sub(Mul(2, Q(cell.col), step.w), Q(CENTER)),
     cy |-> Sub(Mul(2, Q(cell.row), step.h), Q(CENTER))]

\* the Square component: glide offsets its pieces by width / height,
\* translate by baseW / baseH
Square(mode, r) ==
    SqPatchTiles(mode,
                 [i \in 1..Len(LatticeCells(r)) |-> SqCellOrigin(LatticeCells(r)[i], SqStep(mode))],
                 4,
                 IF mode = "translate" THEN SqBaseSize ELSE SqPatchSize(mode, SquarePivot),
                 SquarePivot)

\* buildSquareDemoTiles: the number of pieces of the centre patch
\* (offsets.length, n) and of every surrounding patch (includeCount);
\* SqDemoCount_Whole draws the whole patch at every step
SqDemoCount_Whole(step) == 4

SqDemoCount(step) == Min(4, Max(1, step))

\* buildSquareDemoTiles: the surrounding patch centres c * patchW, r * patchH
\* for r, c in -4..4, nearest first.  The spacing is at least 2, so a centre
\* is within 1e-6 of the origin only in the cell r = c = 0.
SqDemoRange == 4
SqDemoCenters ==
    LET cells == SelectSeq(Cells(-SqDemoRange, SqDemoRange), NotOrigin)
    IN  SortByHypot(2, [i \in 1..Len(cells) |->
                           [cx |-> Mul(2, Q(cells[i].col), Mul(2, SqBaseSize.w, Q(2))),
                            cy |-> Mul(2, Q(cells[i].row), Mul(2, SqBaseSize.h, Q(2)))]])

\* reveal = (requested >= 9) ? centers.length : Math.min(centers.length, requested)
SqReveal(step, len) == IF step - 4 >= 9 THEN len ELSE Min(len, step - 4)

\* buildSquareDemoTiles for squareDemoMode = true: the centre patch, drawn
\* without a translation of its own, then the revealed surrounding patches
buildSquareDemoTiles(mode, step) ==
    [k \in 1..SqDemoCount(step) |->
        SqPieceTile(mode, Q(0), Q(0), k - 1, SqPatchSize(mode, SqDemoPivot), SqDemoPivot)]
    \o (IF step > 4
        THEN SqPatchTiles(mode, SubSeq(SqDemoCenters, 1, SqReveal(step, Len(SqDemoCenters))),
                          SqDemoCount(step), SqBaseSize, SqDemoPivot)
        ELSE << >>)

-----------------------------------------------------------------------------
(* Hexagon.tsx: the Hexagon component.  It has no lattice loop of its own: *)
(* each branch draws its demo, and the rotate120 and translate branches    *)
(* set demoStep to 80 when demoMode is off.  The `range` and `demoCenters` *)
(* props are not read.                                                     *)

HexBV == getBaseVertices("hexagon")

\* pivot = baseVerts[5]
HexPivot == HexBV[5]

\* rotate120 and glide: stepX = 1.5 * RADIUS, stepY = stepX * sqrt(3) * 2,
\* the centres of the cells -8..8 without the origin, nearest first
HexDemoGridRange == 8
HexGridCenter(cell) ==
    LET stepX == Frac(3 * RADIUS, 2)
        stepY == Mul(3, stepX, Root(2, 1))
    IN  [cx |-> Mul(3, Q(cell.col), stepX),
         cy |-> Add(Mul(3, Q(cell.row), stepY),
                    IF Rem(cell.col, 2) # 0 THEN Div(3, stepY, Q(2)) ELSE Q(0))]

HexGridCenters ==
    LET cells == SelectSeq(Cells(-HexDemoGridRange, HexDemoGridRange), NotOrigin)
    IN  SortByHypot(3, [i \in 1..Len(cells) |-> HexGridCenter(cells[i])])

\* rotate120: piece k of the patch translated to (cx, cy):
\* translate(cx - pivot.x, cy - pivot.y) rotate(k * 120, pivot.x, pivot.y)
HexRotateTile(center, k, pivot) ==
    Tile(Sub(center.cx, pivot.x), Sub(center.cy, pivot.y), k * 120, pivot,
         FALSE, FALSE, IF k % 2 = 0 THEN "A" ELSE "B")

\* the three pieces of every revealed centre, centre by centre
HexRotatePatches(reveal, centers, pivot) ==
    [j \in 1..(3 * reveal) |-> HexRotateTile(centers[((j - 1) \div 3) + 1], (j - 1) % 3, pivot)]

HexagonRotate(step) ==
    [k \in 1..Min(3, Max(1, step)) |-> HexRotateTile([cx |-> Q(0), cy |-> Q(0)], k - 1, HexPivot)]
    \o (IF step > 3
        THEN HexRotatePatches(Min(step - 3, (2 * HexDemoGridRange + 1) * (2 * HexDemoGridRange + 1) - 1),
                              HexGridCenters, HexPivot)
        ELSE << >>)

\* translate: pieceOffsets = [0, v0, v1], v0 and v1 twice the vector from
\* the centre to the midpoint of edge 0 and of edge 1
HexOffsetThrough(mid) ==
    Pt(Mul(3, Q(2), Sub(mid.x, Q(CENTER))), Mul(3, Q(2), Sub(mid.y, Q(CENTER))))

HexPieceOffsets ==
    << Pt(Q(0), Q(0)),
       HexOffsetThrough(Midpoint(3, HexBV[0], HexBV[1])),
       HexOffsetThrough(Midpoint(3, HexBV[1], HexBV[2])) >>

\* avgOx, avgOy: the mean of the three offsets
HexAvgOffset(offs) ==
    Pt(Div(3, Add(Add(offs[1].x, offs[2].x), offs[3].x), Q(3)),
       Div(3, Add(Add(offs[1].y, offs[2].y), offs[3].y), Q(3)))

\* (ux, uy), (vx, vy): the unit vector of b = pieceOffsets[i] - pieceOffsets[0]
HexUnit(b) ==
    Pt(Div(3, b.x, OrOne(Sqrt(3, Add(Mul(3, b.x, b.x), Mul(3, b.y, b.y))))),
       Div(3, b.y, OrOne(Sqrt(3, Add(Mul(3, b.x, b.x), Mul(3, b.y, b.y))))))

HexBasis(i) ==
    HexUnit(Pt(Sub(HexPieceOffsets[i + 1].x, HexPieceOffsets[1].x),
               Sub(HexPieceOffsets[i + 1].y, HexPieceOffsets[1].y)))

\* the projections of the 18 vertices of the assembled patch on the unit vector u
HexProjections(offs, bv, pivot, u) ==
    Evaluated([j \in 1..18 |->
        Dot(3, Add(Sub(bv[(j - 1) % 6].x, pivot.x), offs[((j - 1) \div 6) + 1].x),
               Add(Sub(bv[(j - 1) % 6].y, pivot.y), offs[((j - 1) \div 6) + 1].y),
               u.x, u.y)])

\* stepU, stepV: (max - min) * margin of the projections, 3 * RADIUS when
\* that is below 1e-6 (an extent is a sum of multiples of RADIUS / 2 and
\* RADIUS * sqrt(3) / 2: below 1e-6 it is 0)
HexExtentStep(ext) == IF Sign(3, ext) <= 0 THEN Q(3 * RADIUS) ELSE ext

HexPatchStep(proj) == HexExtentStep(Sub(Extreme(3, proj, TRUE), Extreme(3, proj, FALSE)))

\* the basis vector i scaled by its step
HexStepVector(u, step) == Pt(Mul(3, u.x, step), Mul(3, u.y, step))

HexLatticeVector(i) ==
    HexStepVector(HexBasis(i),
                  HexPatchStep(HexProjections(HexPieceOffsets, HexBV, HexPivot, HexBasis(i))))

\* col * u * stepU + row * v * stepV over the cells -8..8 without the origin,
\* nearest first
HexCentersOn(cells, su, sv) ==
    SortByHypot(3, [i \in 1..Len(cells) |->
        [cx |-> Add(Mul(3, Q(cells[i].col), su.x), Mul(3, Q(cells[i].row), sv.x)),
         cy |-> Add(Mul(3, Q(cells[i].col), su.y), Mul(3, Q(cells[i].row), sv.y))]])

HexTranslateCenters ==
    HexCentersOn(SelectSeq(Cells(-HexDemoGridRange, HexDemoGridRange), NotOrigin),
                 HexLatticeVector(1), HexLatticeVector(2))

\* translate: piece k of the patch at (cx, cy): translate(cx + ox - avgOx, cy + oy - avgOy)
HexTranslateTile(center, k, offs, avg) ==
    Tile(Add(center.cx, Sub(offs[k + 1].x, avg.x)), Add(center.cy, Sub(offs[k + 1].y, avg.y)),
         0, NoPivot, FALSE, FALSE, IF k % 2 = 0 THEN "A" ELSE "B")

HexTranslatePieces(shown, reveal, centers, offs, avg) ==
    [k \in 1..shown |-> HexTranslateTile([cx |-> Q(0), cy |-> Q(0)], k - 1, offs, avg)]
    \o [j \in 1..(3 * reveal) |->
           HexTranslateTile(centers[((j - 1) \div 3) + 1], (j - 1) % 3, offs, avg)]

HexagonTranslate(step) ==
    IF step > 3
    THEN HexTranslatePieces(3, Min(step - 3, (2 * HexDemoGridRange + 1) * (2 * HexDemoGridRange + 1) - 1),
                            HexTranslateCenters, HexPieceOffsets, HexAvgOffset(HexPieceOffsets))
    ELSE HexTranslatePieces(Min(3, Max(1, step)), 0, << >>,
                            HexPieceOffsets, HexAvgOffset(HexPieceOffsets))

\* glide: reveal = max(0, demoStep - 2) single tiles, translate(cx, cy)
HexGlideTiles(reveal, centers) ==
    [i \in 1..reveal |->
        Tile(centers[i].cx, centers[i].cy, 0, NoPivot, FALSE, FALSE,
             IF (i - 1) % 2 = 0 THEN "A" ELSE "B")]

HexagonGlide(step) ==
    HexGlideTiles(Min(Max(0, step - 2), (2 * HexDemoGridRange + 1) * (2 * HexDemoGridRange + 1) - 1),
                  HexGridCenters)

\* the Hexagon component
Hexagon(mode, demo, step) ==
    IF mode = "rotate120" THEN HexagonRotate(IF demo THEN step ELSE 80)
    ELSE IF mode = "translate" THEN HexagonTranslate(IF demo THEN step ELSE 80)
    ELSE IF mode = "glide" THEN HexagonGlide(step)
    ELSE << >>

\* Hexagon: the pivot marker of the rotate120 branch, at (pivot.x + tx0, pivot.y + ty0)
HexagonMarker(mode, demo, step) ==
    IF mode = "rotate120" /\ demo /\ step >= 1 /\ step <= 3
    THEN Pt(Add(HexPivot.x, Sub(Q(0), HexPivot.x)), Add(HexPivot.y, Sub(Q(0), HexPivot.y)))
    ELSE NoMarker

-----------------------------------------------------------------------------
(* SpecRender: one render of the tiling for given props: a lattice render  *)
(* for a grid range (the `range` prop, which App leaves at its default),   *)
(* or a demo render for a step the step buttons can reach.                 *)

MaxRange == 2
RenderRanges == 0..MaxRange \cup {DefaultRange}

InitRender ==
    /\ shapeType \in Shapes
    /\ transformType \in ModesOf(shapeType)
    /\ triSymmetry \in (IF shapeType = "triangle" THEN Symmetries ELSE {"cw"})
    /\ edgePaths = EmptyPaths
    /\ activePoint = NoPoint
    /\ demoMode \in (IF shapeType = "square" THEN {FALSE} ELSE BOOLEAN)
    /\ demoStep \in (IF ~demoMode THEN {0}
                     ELSE IF shapeType = "triangle" THEN 0..(6 + TriDemoLength)
                     ELSE 1..HexStepCap)
    /\ demoCenters = (IF ~demoMode THEN "none"
                      ELSE IF shapeType = "triangle" THEN "triangle"
                      ELSE IF transformType = "rotate120" THEN "hexRotate"
                      ELSE "hexGrid")
    /\ squareDemoMode \in (IF shapeType = "square" THEN BOOLEAN ELSE {FALSE})
    /\ squareDemoStep \in (IF squareDemoMode THEN 1..(4 + 80) ELSE {0})
    /\ range \in (IF demoMode \/ squareDemoMode THEN {DefaultRange} ELSE RenderRanges)
    /\ pending = {}
    /\ call = NoCall
    /\ tiles = << >>
    /\ marker = NoMarker
    /\ pc = "props"

UnchangedByRender ==
    UNCHANGED << shapeType, transformType, triSymmetry, edgePaths, activePoint, demoMode,
                 demoStep, demoCenters, squareDemoMode, squareDemoStep, pending, call, range >>

\* App renders <TriangleShape .../>
RenderTriangle ==
    /\ pc = "props"
    /\ shapeType = "triangle"
    /\ tiles' = Triangle(triSymmetry, demoMode, demoStep, DemoCentersOf(demoCenters), range)
    /\ marker' = TriangleMarker(triSymmetry, demoMode, demoStep)
    /\ pc' = "rendered"
    /\ UnchangedByRender

\* App renders <SquareShape .../> while the square demo is off
RenderSquare ==
    /\ pc = "props"
    /\ shapeType = "square"
    /\ ~squareDemoMode
    /\ tiles' = Square(transformType, range)
    /\ marker' = NoMarker
    /\ pc' = "rendered"
    /\ UnchangedByRender

\* App renders squareDemoTiles while the square demo is on
RenderSquareDemo ==
    /\ pc = "props"
    /\ shapeType = "square"
    /\ squareDemoMode
    /\ tiles' = buildSquareDemoTiles(transformType, squareDemoStep)
    /\ marker' = SqDemoPivot
    /\ pc' = "rendered"
    /\ UnchangedByRender

\* App renders <HexagonShape .../>
RenderHexagon ==
    /\ pc = "props"
    /\ shapeType = "hexagon"
    /\ tiles' = Hexagon(transformType, demoMode, demoStep)
    /\ marker' = HexagonMarker(transformType, demoMode, demoStep)
    /\ pc' = "rendered"
    /\ UnchangedByRender

NextRender ==
    \/ RenderHexagon
    \/ RenderTriangle
    \/ RenderSquare
    \/ RenderSquareDemo

SpecRender == InitRender /\ [][NextRender]_vars

-----------------------------------------------------------------------------
(* Claims about the renderers *)

Rendered == pc = "rendered"
LatticeRender == Rendered /\ ~demoMode /\ ~squareDemoMode
DemoRender == Rendered /\ (demoMode \/ squareDemoMode)

\* what the lattice renderer of the current shape, mode and symmetry emits
\* for a grid range
LatticeTiles(r) ==
    IF shapeType = "triangle" THEN Triangle(triSymmetry, FALSE, 0, << >>, r)
    ELSE IF shapeType = "hexagon" THEN Hexagon(transformType, FALSE, 0)
    ELSE Square(transformType, r)

\* one motif at the lattice cell row 0, col 0
MotifAtOrigin ==
    IF shapeType = "triangle"
    THEN TriPatchTiles(triSymmetry, << TriCenter([row |-> 0, col |-> 0]) >>)
    ELSE IF shapeType = "hexagon" THEN Hexagon(transformType, TRUE, 3)
    ELSE SqPatchTiles(transformType,
                      << SqCellOrigin([row |-> 0, col |-> 0], SqStep(transformType)) >>, 4,
                      IF transformType = "translate" THEN SqBaseSize
                      ELSE SqPatchSize(transformType, SquarePivot),
                      SquarePivot)

\* C4: a lattice render with grid range 0 emits exactly one placement of the
\* motif, the one with zero lattice translation (cell row 0, col 0).
C4_RangeZeroOneMotif ==
    (LatticeRender /\ range = 0) => tiles = MotifAtOrigin

\* the placement of a tile: translation, rotation angle, pivot, mirror flags
PlacementOf(t) ==
    [tx |-> t.tx, ty |-> t.ty, angle |-> t.angle, pivot |-> t.pivot,
     flipH |-> t.flipH, flipV |-> t.flipV]

PlacementsOf(ts) == { PlacementOf(ts[i]) : i \in 1..Len(ts) }

\* C9: every placement a demo render emits is one of the placements the
\* lattice renderer emits for the same shape, mode and symmetry, and the
\* square rotate90 demo rotates its copies about the lattice pivot, the base
\* vertex that maximizes x + y.
C9_DemoPlacementsAreLatticePlacements ==
    DemoRender =>
        /\ PlacementsOf(tiles) \subseteq PlacementsOf(LatticeTiles(DefaultRange))
        /\ (squareDemoMode /\ transformType = "rotate90")
              => \A i \in 1..Len(tiles) : tiles[i].pivot = SquarePivot

\* C10: the square rotate90 demo at a step s in 1..4 emits exactly s tiles,
\* tile k rotated by 90*(k-1) degrees, all about one and the same base
\* vertex; at step 4 these are the angles 0, 90, 180, 270.
C10_Rotate90DemoAssembly ==
    (Rendered /\ squareDemoMode /\ transformType = "rotate90" /\ squareDemoStep \in 1..4)
        => /\ Len(tiles) = squareDemoStep
           /\ \A k \in 1..Len(tiles) :
                 /\ tiles[k].angle = 90 * (k - 1)
                 /\ tiles[k].pivot = tiles[1].pivot
                 /\ \E v \in 0..3 : tiles[k].pivot = SqBV[v]

C10_Witness ==
    /\ Rendered /\ squareDemoMode /\ transformType = "rotate90" /\ squareDemoStep = 4
    /\ [k \in 1..Len(tiles) |-> tiles[k].angle] = << 0, 90, 180, 270 >>

TriDemoRender == Rendered /\ shapeType = "triangle" /\ demoMode

\* the hexagon centre a triangle tile belongs to: its translation plus the pivot
TileCenter(t) == [cx |-> Add(t.tx, t.pivot.x), cy |-> Add(t.ty, t.pivot.y)]

\* the squared distances from the origin of the surrounding centres whose
\* wedges are among the tiles, and of those that are not
ShownKeys == { Hypot2(3, TileCenter(tiles[i])) : i \in 7..Len(tiles) }
HiddenKeys ==
    { Hypot2(3, c) :
        c \in { TriCenter(cell) :
                  cell \in { [row |-> r, col |-> c] :
                               r \in -TriDemoRange..TriDemoRange,
                               c \in -TriDemoRange..TriDemoRange } \ {[row |-> 0, col |-> 0]} }
              \ { TileCenter(tiles[i]) : i \in 7..Len(tiles) } }

\* C11: the triangle demo at step s with n centres emits min(6, s) wedges of
\* the central motif, wedge k rotated by k*rotDir*60 about the pivot, then
\* for s > 6 the six wedges of each of the first min(s - 6, n) centres of the
\* list; the pivot marker is drawn iff 1 <= s <= 6; and no centre is shown
\* while a strictly nearer one is hidden.
C11_TriangleDemoReveal ==
    TriDemoRender =>
        /\ Len(tiles) = Min(6, demoStep)
             + (IF demoStep > 6 THEN 6 * Min(demoStep - 6, DemoCentersLength(demoCenters)) ELSE 0)
        /\ \A k \in 1..Min(6, demoStep) :
              /\ tiles[k].angle = (k - 1) * TriRotDir(triSymmetry) * 60
              /\ tiles[k].pivot = TrianglePivot(triSymmetry)
              /\ TileCenter(tiles[k]) = [cx |-> Q(0), cy |-> Q(0)]
        /\ (marker # NoMarker) <=> (demoStep >= 1 /\ demoStep <= 6)
        /\ \A j \in 7..Len(tiles) :
              /\ tiles[j].angle = ((j - 7) % 6) * TriRotDir(triSymmetry) * 60
              /\ tiles[j].pivot = TrianglePivot(triSymmetry)
              /\ TileCenter(tiles[j]) = DemoCentersOf(demoCenters)[((j - 7) \div 6) + 1]
        /\ \A shown \in ShownKeys : \A hidden \in HiddenKeys : ~Less(3, hidden, shown)

C11_Witness ==
    /\ TriDemoRender /\ demoStep = 10 /\ Len(tiles) = 30
    /\ marker = NoMarker
    /\ HiddenKeys # {}

-----------------------------------------------------------------------------
(* Claims about the fast-forward effect (SpecDemo) *)

\* the fast-forward effect is the only step taken while it is pending
FastForwardRuns == shapeType = "triangle" /\ "auto" \in pending

-----------------------------------------------------------------------------
(* SpecDegenerate: the edit functions called with degenerate base          *)
(* vertices: one base edge collapsed to a point, or all vertices equal.    *)

\* base vertices whose edge e has zero length: vertex e + 1 moved onto vertex e
Collapse(bv, e) ==
    [i \in DOMAIN bv |-> IF i = (e + 1) % Cardinality(DOMAIN bv) THEN bv[e] ELSE bv[i]]

\* the baseVertices arguments tried: every single collapsed edge, and all
\* vertices coincident
DegenerateVertices(shape) ==
    { Collapse(getBaseVertices(shape), e) : e \in 0..(NumEdges(shape) - 1) }
    \cup { [i \in 0..(NumEdges(shape) - 1) |-> getBaseVertices(shape)[0]] }

InitDegenerate ==
    /\ shapeType \in Shapes
    /\ transformType \in ModesOf(shapeType)
    /\ triSymmetry \in SymsOf(shapeType)
    /\ edgePaths = DefaultPaths(shapeType, triSymmetry)
    /\ \E bv \in DegenerateVertices(shapeType) : call = [NoCall EXCEPT !.bv = bv]
    /\ pc = "edit"
    /\ IdleRest

SpecDegenerate == InitDegenerate /\ [][NextEdit]_vars

\* the last call edited an edge whose base segment has zero length
ZeroLengthEdit ==
    /\ Edited
    /\ call.active.edgeIdx \in DOMAIN call.bv
    /\ call.bv[call.active.edgeIdx]
         = call.bv[(call.active.edgeIdx + 1) % NumEdges(shapeType)]

\* a number that is neither NaN nor an Infinity: its denominator is not 0
Finite(x) == x.d # 0

\* the base midpoint of edge e of the vertices handed to the call
CallMid(e) == Midpoint(NF, call.bv[e], call.bv[(e + 1) % NumEdges(shapeType)])

\* C13: when the edited edge's base segment has zero length, the projection
\* used for the edit is t = 0.5, d = 0: the triangle's paired points and the
\* hexagon's paired point (rotate120: 1 - t, -d; glide: t, -d) lie at the
\* base midpoint of the paired edge; and every coordinate of the returned
\* map is finite.
C13_ZeroLengthDefaults ==
    ZeroLengthEdit =>
        /\ (shapeType = "triangle" /\ call.active.edgeIdx = TriDriven)
              => \A k \in 1..Len(edgePaths[TriPaired(triSymmetry)]) :
                    edgePaths[TriPaired(triSymmetry)][k] = CallMid(TriPaired(triSymmetry))
        /\ (shapeType = "hexagon" /\ HexPaired(call.active.edgeIdx, transformType) # -1)
              => /\ computeTD(NF, call.bv, call.active.edgeIdx, call.pos)
                      = [t |-> Frac(1, 2), d |-> Q(0)]
                 /\ transformType \in {"rotate120", "glide"}
                       => edgePaths[HexPaired(call.active.edgeIdx, transformType)]
                            = << CallMid(HexPaired(call.active.edgeIdx, transformType)) >>
        /\ \A e \in DOMAIN edgePaths : \A k \in 1..Len(edgePaths[e]) :
              Finite(edgePaths[e][k].x) /\ Finite(edgePaths[e][k].y)

\* C14: the edit functions are pure: after a call the map passed in holds
\* what it held before the call, and the result is a new map.
C14_EditIsPure ==
    Called => (call.after = call.input /\ call.fresh)

-----------------------------------------------------------------------------
(* SpecApp: the editor of App.  The user picks a shape or a transform      *)
(* mode, presses, drags and releases control points and clicks reset; the  *)
(* effects on [shapeType] and [transformType] run after the commit that    *)
(* changed their dependency, in the order of their declaration.  pc tells  *)
(* whether the user's last event was a switch (a shape click, or a mode    *)
(* click that changed the mode) or some other event.                       *)

UnchangedDemo ==
    UNCHANGED << triSymmetry, demoMode, demoStep, demoCenters, squareDemoMode,
                 squareDemoStep, range, tiles, marker >>

InitApp ==
    /\ shapeType = "square"
    /\ transformType = "rotate90"
    /\ triSymmetry = "cw"
    /\ edgePaths = EmptyPaths
    /\ call = NoCall
    /\ pc = "mounted"
    /\ IdleRest

\* onClick of a shape button: setShapeType(t.id); resetPaths()
SelectShape(s) ==
    /\ pending = {}
    /\ shapeType' = s
    /\ edgePaths' = EmptyPaths
    /\ pending' = IF s # shapeType THEN {"shape"} ELSE {}
    /\ pc' = "switch"
    /\ UNCHANGED << transformType, activePoint, call >>
    /\ UnchangedDemo

\* mutant: the mode effect only drops the active point
TransformEffectPaths_Kept(paths) == paths

\* the edge-path map the effect on [transformType] stores: resetPaths()
TransformEffectPaths(paths) == EmptyPaths

\* onClick of a mode button of the square or the hexagon panel
SelectTransform(m) ==
    /\ pending = {}
    /\ \/ shapeType = "square" /\ m \in SquareModes
       \/ shapeType = "hexagon" /\ m \in HexagonModes
    /\ transformType' = m
    /\ pending' = IF m # transformType THEN {"transform"} ELSE {}
    /\ pc' = IF m # transformType THEN "switch" ELSE "other"
    /\ UNCHANGED << shapeType, edgePaths, activePoint, call >>
    /\ UnchangedDemo

\* mutant: only the square gets its default mode
ShapeEffectMode_SquareOnly(shape, mode) ==
    IF shape = "square" THEN "rotate90" ELSE mode

\* useEffect(() => { square -> rotate90; hexagon -> rotate120 }, [shapeType])
ShapeEffectMode(shape, mode) ==
    IF shape = "square" THEN "rotate90"
    ELSE IF shape = "hexagon" THEN "rotate120"
    ELSE mode

EffectShape ==
    /\ "shape" \in pending
    /\ transformType' = ShapeEffectMode(shapeType, transformType)
    /\ pending' = (pending \ {"shape"}) \cup
                  (IF ShapeEffectMode(shapeType, transformType) # transformType
                   THEN {"transform"} ELSE {})
    /\ UNCHANGED << shapeType, edgePaths, activePoint, call, pc >>
    /\ UnchangedDemo

\* useEffect(() => { resetPaths(); setActivePoint(null) }, [transformType])
EffectTransform ==
    /\ "transform" \in pending /\ "shape" \notin pending
    /\ edgePaths' = TransformEffectPaths(edgePaths)
    /\ activePoint' = NoPoint
    /\ pending' = pending \ {"transform"}
    /\ UNCHANGED << shapeType, transformType, call, pc >>
    /\ UnchangedDemo

\* the reset button
ResetClick ==
    /\ pending = {}
    /\ edgePaths' = EmptyPaths
    /\ pc' = "other"
    /\ UNCHANGED << shapeType, transformType, activePoint, call, pending >>
    /\ UnchangedDemo

\* handleMouseDown on a control point that has the handler
MouseDown(e, i) ==
    /\ pending = {}
    /\ e \in 0..(NumEdges(shapeType) - 1)
    /\ Interactive(shapeType, transformType, triSymmetry, activePoint, e, i)
    /\ i \in 0..(Len(CurrentEdgePaths(shapeType, edgePaths, triSymmetry)[e]) - 1)
    /\ activePoint' = [edgeIdx |-> e, pointIdx |-> i]
    /\ pc' = "other"
    /\ UNCHANGED << shapeType, transformType, edgePaths, call, pending >>
    /\ UnchangedDemo

\* the pointer moves the check follows, and where they go
MaxDrags == 2
DragPositions == { Pt(Q(230), Q(240)), Pt(Q(170), Q(290)) }

\* handleMouseMove; with an active edge the current shape does not have the
\* updater throws and the state is kept, and with a point index one past the
\* edge's points the assignment appends the point
MouseMove(pos) ==
    /\ pending = {}
    /\ call.count < MaxDrags
    /\ activePoint # NoPoint
    /\ activePoint.edgeIdx \in 0..(NumEdges(shapeType) - 1)
    /\ edgePaths' = MoveUpdate(shapeType, transformType, triSymmetry,
                               CurrentEdgePaths(shapeType, edgePaths, triSymmetry),
                               activePoint, pos)
    /\ call' = [active |-> activePoint, pos |-> pos,
                before |-> CurrentEdgePaths(shapeType, edgePaths, triSymmetry),
                input |-> WritePoint(CurrentEdgePaths(shapeType, edgePaths, triSymmetry),
                                     activePoint, pos),
                count |-> call.count + 1, bv |-> getBaseVertices(shapeType),
                after |-> edgePaths', fresh |-> FALSE]
    /\ pc' = "other"
    /\ UNCHANGED << shapeType, transformType, activePoint, pending >>
    /\ UnchangedDemo

\* handleMouseUp
MouseUp ==
    /\ pending = {}
    /\ activePoint # NoPoint
    /\ activePoint' = NoPoint
    /\ pc' = "other"
    /\ UNCHANGED << shapeType, transformType, edgePaths, call, pending >>
    /\ UnchangedDemo

NextApp ==
    \/ \E s \in Shapes : SelectShape(s)
    \/ \E m \in AllModes : SelectTransform(m)
    \/ EffectShape
    \/ EffectTransform
    \/ ResetClick
    \/ \E e \in 0..5, i \in 0..1 : MouseDown(e, i)
    \/ \E pos \in DragPositions : MouseMove(pos)
    \/ MouseUp

SpecApp == InitApp /\ [][NextApp]_vars

\* the defaults the claim names: the two symmetric default handles on the
\* triangle's spare edge, the base midpoint on every other edge
NamedDefault(shape, sym, e) ==
    LET bv == getBaseVertices(shape)
        a == bv[e]
        b == bv[(e + 1) % NumEdges(shape)]
    IN  IF shape = "triangle" /\ e = TriSpare(sym)
        THEN makeSymmetric(Rad(shape), a, b)
        ELSE << Midpoint(Rad(shape), a, b) >>

Switched == pc = "switch" /\ pending = {}

\* C15: after the user switched the shape or the transform mode and the
\* effects of that switch have run, the effective edge-path map has exactly
\* the edges of the shape and every one holds its default, whatever was
\* edited before.
C15_SwitchRestoresDefaults ==
    Switched =>
        LET cur == CurrentEdgePaths(shapeType, edgePaths, triSymmetry)
        IN  /\ DOMAIN cur = 0..(NumEdges(shapeType) - 1)
            /\ \A e \in DOMAIN cur : cur[e] = NamedDefault(shapeType, triSymmetry, e)

\* a mode switch has completed after a drag that had moved a control point
C15_Witness ==
    /\ Switched
    /\ Called
    /\ call.after # call.before
    /\ transformType \notin {"rotate90", "rotate120"}

-----------------------------------------------------------------------------
(* Coverage of the plane by a render with the default edge paths.  With    *)
(* every control point on its base midpoint the tile of the square and of  *)
(* the hexagon is the base polygon, and each of its copies (rotated by a   *)
(* multiple of 90 resp. 120 degrees, mirrored about its centre,            *)
(* translated) covers the base polygon moved to the image of the centre.   *)

PolygonShape == shapeType \in {"square", "hexagon"}

\* where the transform of tile t takes the centre (CENTER, CENTER) of the tile
ImageCenter(t) ==
    LET c == IF t.pivot = NoPivot THEN Pt(Q(CENTER), Q(CENTER))
             ELSE RotatePoint(NF, Pt(Q(CENTER), Q(CENTER)), t.angle, t.pivot)
    IN  Pt(Add(t.tx, c.x), Add(t.ty, c.y))

ImageCenters == { ImageCenter(tiles[i]) : i \in 1..Len(tiles) }

\* the distance between two opposite edges of the base polygon
\* (RADIUS * sqrt(2) resp. RADIUS * sqrt(3))
AcrossFlats == Mul(NF, Q(RADIUS), Root(1, 1))

\* the unit normals of the edges, one of each opposite pair
EdgeNormals ==
    IF shapeType = "square" THEN { Pt(Q(1), Q(0)), Pt(Q(0), Q(1)) }
    ELSE { Pt(CosDeg(3, 30), SinDeg(3, 30)), Pt(CosDeg(3, 90), SinDeg(3, 90)),
           Pt(CosDeg(3, 150), SinDeg(3, 150)) }

\* from the centre of a tile to the centres of the tiles across its edges
NeighbourVectors ==
    { Pt(Mul(NF, Q(sg), Mul(NF, AcrossFlats, nrm.x)), Mul(NF, Q(sg), Mul(NF, AcrossFlats, nrm.y))) :
        sg \in {-1, 1}, nrm \in EdgeNormals }

IsInteger(x) == x.b = 0 /\ x.d = 1

\* c is the centre c0 moved by whole steps across edges
OnTileLattice(c, c0) ==
    IF shapeType = "square"
    THEN /\ IsInteger(Div(2, Sub(c.x, c0.x), AcrossFlats))
         /\ IsInteger(Div(2, Sub(c.y, c0.y), AcrossFlats))
    ELSE LET i == Div(3, Sub(c.x, c0.x), Frac(3 * RADIUS, 2))
         IN  /\ IsInteger(i)
             /\ IsInteger(Div(3, Sub(Sub(c.y, c0.y), Mul(3, i, Div(3, AcrossFlats, Q(2)))),
                              AcrossFlats))

\* no two copies cover the same ground: the copies lie on one lattice of
\* edge-to-edge positions and no position is taken twice
NoOverlapOf(centers, count, c0) ==
    /\ Cardinality(centers) = count
    /\ \A c \in centers : OnTileLattice(c, c0)

\* no uncovered position is enclosed: a position next to a copy that no copy
\* takes has a neighbour position that no copy takes either
NoHoleIn(centers, steps) ==
    \A c \in centers : \A v \in steps :
        Pt(Add(c.x, v.x), Add(c.y, v.y)) \notin centers =>
            \E w \in steps :
                Pt(Add(Add(c.x, v.x), w.x), Add(Add(c.y, v.y), w.y)) \notin centers

NoOverlap == tiles = << >> \/ NoOverlapOf(ImageCenters, Len(tiles), ImageCenter(tiles[1]))
NoHole == NoHoleIn(ImageCenters, NeighbourVectors)

\* C16: with the default edge paths the copies a lattice render of the
\* square or of the hexagon emits, in each transform mode, cover their
\* region without overlap and without gap.
C16_DefaultTilingExact ==
    (LatticeRender /\ PolygonShape /\ edgePaths = EmptyPaths) => (NoOverlap /\ NoHole)

-----------------------------------------------------------------------------
(* Claims about applySquareEdit (SpecEdit) *)

SquareEdited == Edited /\ shapeType = "square"

\* the bottom edge differs from what it was before the edit
BottomChanged == edgePaths[SqDriven] # call.before[SqDriven]

\* C17 as stated: in every square mode the control point of edge 3 changes
\* only when edge 3 itself is the edited edge.
C17_Edge3OnlyWhenEdited ==
    (SquareEdited /\ call.active.edgeIdx # SqDriven) => ~BottomChanged

\* C17: the control point of edge 3 changes only when edge 3 itself is the
\* edited edge or, in translate and glide mode, when the top edge (1) is
\* edited; in rotate90 mode no edit of another edge changes it.
C17_Edge3DrivenOrTopDerived ==
    (SquareEdited /\ call.active.edgeIdx # SqDriven /\ BottomChanged)
        => (call.active.edgeIdx = SqTop /\ transformType \in {"translate", "glide"})

\* an edit of the top edge in translate mode has moved the bottom edge
C17_Witness ==
    /\ SquareEdited /\ transformType = "translate"
    /\ call.active.edgeIdx = SqTop
    /\ BottomChanged

\* the point the edit wrote into the edited edge
EditedPoint == call.input[call.active.edgeIdx][call.active.pointIdx + 1]

\* v rotated by +90 degrees: (x, y) -> (-y, x)
Rot90(v) == Pt(Neg(v.y), v.x)

\* the midpoint of edge `to` plus the vector v
FromMid(to, v) == Pt(Add(EdgeMid(to).x, v.x), Add(EdgeMid(to).y, v.y))

\* C18: square rotate90: an edit of edge 1 at p sets the right edge (0 under
\* cw, 2 under ccw) to its base midpoint plus (p - midpoint of edge 1)
\* rotated by +90 degrees, an edit of edge 3 at q sets edge 2 to its base
\* midpoint plus (q - midpoint of edge 3) rotated by +90 degrees; under cw
\* the derived point is the edited point rotated by +90 degrees about the
\* vertex the two edges share (vertex 1, vertex 3).
C18_Rotate90Derived ==
    (SquareEdited /\ transformType = "rotate90") =>
        /\ call.active.edgeIdx = SqTop =>
              /\ edgePaths[SqRight(triSymmetry)] =
                     << FromMid(SqRight(triSymmetry), Rot90(PSub(EditedPoint, EdgeMid(SqTop)))) >>
              /\ triSymmetry = "cw" =>
                     edgePaths[0] = << RotatePoint(2, EditedPoint, 90, BV[1]) >>
        /\ call.active.edgeIdx = SqDriven =>
              /\ edgePaths[SqLeft] =
                     << FromMid(SqLeft, Rot90(PSub(EditedPoint, EdgeMid(SqDriven)))) >>
              /\ triSymmetry = "cw" =>
                     edgePaths[SqLeft] = << RotatePoint(2, EditedPoint, 90, BV[3]) >>

\* under cw an edit of edge 3 off its midpoint has moved edge 2
C18_Witness ==
    /\ SquareEdited /\ transformType = "rotate90" /\ triSymmetry = "cw"
    /\ call.active.edgeIdx = SqDriven
    /\ EditedPoint # EdgeMid(SqDriven)
    /\ edgePaths[SqLeft] # call.before[SqLeft]

\* p reflected across the line through a and b, for a line parallel to an axis
ReflectAcross(p, a, b) ==
    IF a.y = b.y THEN Pt(p.x, Sub(Mul(2, Q(2), a.y), p.y))
    ELSE Pt(Sub(Mul(2, Q(2), a.x), p.x), p.y)

ThroughCentroid(p) ==
    Pt(Sub(Mul(2, Q(2), Centroid(2, BV).x), p.x), Sub(Mul(2, Q(2), Centroid(2, BV).y), p.y))

\* p mirrored about the vertical (leftRight) or the horizontal line through
\* the centroid
MirrorAbout(p, leftRight) ==
    IF leftRight THEN Pt(ThroughCentroid(p).x, p.y) ELSE Pt(p.x, ThroughCentroid(p).y)

\* where piece i of the glide patch of the Square component draws the point p
\* of the tile: mirrored about the centroid's axes, then moved by (dx, dy)
GlideImage(i, p) ==
    LET piece == GlidePiece(i, SqPatchSize("glide", SquarePivot))
        f == Pt(IF piece.flipH THEN ThroughCentroid(p).x ELSE p.x,
                IF piece.flipV THEN ThroughCentroid(p).y ELSE p.y)
    IN  Pt(Add(f.x, piece.dx), Add(f.y, piece.dy))

\* C19: square glide: an edit of edge 1 at p sets edge 3 to the reflection,
\* across the line through edge 3's base vertices, of 2*centroid - p; that
\* point is p mirrored left-right about the centroid and moved by the vector
\* from edge 1's midpoint to edge 3's midpoint, and it is where the glide
\* lattice draws p in the adjacent piece.  An edit of the right edge at q
\* sets edge 2 by the same rule, and with the right edge opposite to edge 2
\* (cw) that point is q mirrored top-bottom and moved from the right edge's
\* midpoint to edge 2's midpoint.
C19_GlideDerived ==
    (SquareEdited /\ transformType = "glide") =>
        /\ call.active.edgeIdx = SqTop =>
              /\ edgePaths[SqDriven] =
                     << ReflectAcross(ThroughCentroid(EditedPoint), BV[3], BV[0]) >>
              /\ edgePaths[SqDriven] =
                     << PAdd(MirrorAbout(EditedPoint, TRUE),
                             PSub(EdgeMid(SqDriven), EdgeMid(SqTop))) >>
              /\ edgePaths[SqDriven] = << GlideImage(1, EditedPoint) >>
        /\ call.active.edgeIdx = SqRight(triSymmetry) =>
              /\ edgePaths[SqLeft] =
                     << ReflectAcross(ThroughCentroid(EditedPoint), BV[2], BV[3]) >>
              /\ triSymmetry = "cw" =>
                     /\ edgePaths[SqLeft] =
                            << PAdd(MirrorAbout(EditedPoint, FALSE),
                                    PSub(EdgeMid(SqLeft), EdgeMid(0))) >>
                     /\ edgePaths[SqLeft] = << GlideImage(2, EditedPoint) >>

\* an edit of edge 1 in glide mode has moved edge 3
C19_Witness ==
    /\ SquareEdited /\ transformType = "glide"
    /\ call.active.edgeIdx = SqTop
    /\ BottomChanged

\* C20: square translate: an edit of edge 1 at p sets edge 3 to its base
\* midpoint plus (p - midpoint of edge 1), an edit of the right edge at q
\* sets edge 2 to its base midpoint plus (q - midpoint of the right edge);
\* the edited edge holds the point written and no other edge changes.
C20_TranslateDerived ==
    (SquareEdited /\ transformType = "translate") =>
        /\ call.active.edgeIdx = SqTop =>
              /\ edgePaths[SqDriven] =
                     << FromMid(SqDriven, PSub(EditedPoint, EdgeMid(SqTop))) >>
              /\ edgePaths[SqTop] = << EditedPoint >>
              /\ \A e \in {0, 2} : edgePaths[e] = call.before[e]
        /\ call.active.edgeIdx = SqRight(triSymmetry) =>
              /\ edgePaths[SqLeft] =
                     << FromMid(SqLeft, PSub(EditedPoint, EdgeMid(SqRight(triSymmetry)))) >>
              /\ \A e \in {0, 1, 2, 3} \ {SqLeft, SqRight(triSymmetry)} :
                     edgePaths[e] = call.before[e]
              /\ triSymmetry = "cw" => edgePaths[0] = << EditedPoint >>

\* under cw an edit of the right edge in translate mode has moved edge 2
C20_Witness ==
    /\ SquareEdited /\ transformType = "translate" /\ triSymmetry = "cw"
    /\ call.active.edgeIdx = 0
    /\ edgePaths[SqLeft] # call.before[SqLeft]

-----------------------------------------------------------------------------
(* Hexagon rotate120 (SpecEdit) *)

\* C21: Hexagon rotate120: an edit of an odd edge i whose moved point has
\* parameters (t, d) relative to edge i's base segment leaves on edge i - 1
\* the single point with parameters (1 - t, -d) relative to edge i - 1's base
\* segment and changes no other edge of the map it was given; an edit of an
\* even edge returns the map it was given.
C21_HexRotate120 ==
    (shapeType = "hexagon" /\ transformType = "rotate120" /\ Edited) =>
        LET e == call.active.edgeIdx
            o == (e + 5) % 6
            moved == call.input[e][call.active.pointIdx + 1]
            td == ParamsOf(NF, moved, BV[e], BV[(e + 1) % 6])
        IN  IF e % 2 = 1
            THEN /\ o = e - 1
                 /\ DOMAIN edgePaths = DOMAIN call.input
                 /\ Len(edgePaths[o]) = 1
                 /\ ParamsOf(NF, edgePaths[o][1], BV[o], BV[(o + 1) % 6])
                        = [t |-> Sub(Q(1), td.t), d |-> Neg(td.d)]
                 /\ \A k \in DOMAIN edgePaths : k # o => edgePaths[k] = call.input[k]
            ELSE edgePaths = call.input

C21_Witness ==
    /\ shapeType = "hexagon" /\ transformType = "rotate120" /\ Edited
    /\ call.active.edgeIdx = 3 /\ call.pos = Pt(Q(230), Q(240))
    /\ edgePaths[3] = << call.pos >>
    /\ edgePaths[2] # call.before[2]
    /\ call.count = 2 /\ call.before[0] # DefaultPaths("hexagon", "cw")[0]

-----------------------------------------------------------------------------
(* The triangle lattice (SpecRender) *)

\* the position the transform of tile t gives the rotation pivot, which is
\* the centre of the six-wedge motif the tile belongs to
MotifCenter(t) == Pt(Add(t.tx, t.pivot.x), Add(t.ty, t.pivot.y))

\* the largest distance (squared) of a vertex of the base triangle from the
\* pivot: the circumradius (squared) of the motif the six rotations build
MotifCircumradius2(sym) ==
    LET bv == getBaseVertices("triangle")
        d2(v) == Add(Mul(3, Sub(v.x, TrianglePivot(sym).x), Sub(v.x, TrianglePivot(sym).x)),
                     Mul(3, Sub(v.y, TrianglePivot(sym).y), Sub(v.y, TrianglePivot(sym).y)))
    IN  CHOOSE m \in { d2(bv[i]) : i \in 0..2 } :
            \A i \in 0..2 : ~Less(3, m, d2(bv[i]))

\* where the stated rule places lattice cell (row, col) for motif circumradius s
StatedCellPosition(row, col, s) ==
    LET vstep == Mul(3, s, Root(1, 1))
    IN  Pt(Mul(3, Q(col), Mul(3, Frac(3, 2), s)),
           Add(Mul(3, Q(row), vstep),
               IF col % 2 = 1 THEN Div(3, vstep, Q(2)) ELSE Q(0)))

\* C22: a triangle lattice render with grid range r emits 2r x 2r motifs of
\* six wedges each, one for every cell (row, col) with -r <= row, col < r (24
\* x 24 at the default r = 12), and the motif of cell (row, col) is centred
\* at x = col * 1.5 * s, y = row * s * sqrt(3), plus half the vertical step
\* when col is odd, negative odd columns included, where s is the
\* circumradius of the six-wedge motif.
C22_TriangleLattice ==
    (LatticeRender /\ shapeType = "triangle") =>
        LET w == 2 * range
            s2 == MotifCircumradius2(triSymmetry)
            s == Sqrt(3, s2)
        IN  /\ Len(tiles) = 6 * w * w
            /\ range = DefaultRange => Len(tiles) = 6 * 24 * 24
            /\ \A row \in (-range)..(range - 1), col \in (-range)..(range - 1), k \in 0..5 :
                  LET t == tiles[6 * ((row + range) * w + (col + range)) + k + 1]
                  IN  /\ MotifCenter(t) = StatedCellPosition(row, col, s)
                      /\ t.angle = k * TriRotDir(triSymmetry) * 60
                      /\ t.pivot = TrianglePivot(triSymmetry)

C22_Witness ==
    /\ LatticeRender /\ shapeType = "triangle" /\ range = DefaultRange
    /\ Len(tiles) = 3456
    /\ \E j \in 1..Len(tiles) :
          MotifCenter(tiles[j]) = StatedCellPosition(-12, -11, TriSide)

-----------------------------------------------------------------------------
(* Fill alternation (SpecRender) *)

FillOf(k) == IF k % 2 = 0 THEN "A" ELSE "B"

\* the renders whose motif is built from rotated copies, with the number of
\* copies and the angle between two successive copies
RotationalMotif ==
    \/ shapeType = "triangle"
    \/ shapeType = "square" /\ transformType = "rotate90"
    \/ shapeType = "hexagon" /\ transformType = "rotate120"

MotifCopies == IF shapeType = "triangle" THEN 6 ELSE IF shapeType = "square" THEN 4 ELSE 3

MotifTurn ==
    IF shapeType = "triangle" THEN TriRotDir(triSymmetry) * 60
    ELSE IF shapeType = "square" THEN 90 ELSE 120

\* copy k of a rotational motif is filled by the parity of k
CopiesAlternate(ts) ==
    \A j \in 1..Len(ts) :
        \E k \in 0..(MotifCopies - 1) :
            ts[j].angle = k * MotifTurn /\ ts[j].fill = FillOf(k)

\* the centre of every tile with its fill
FilledCenters(ts) == { [c |-> ImageCenter(ts[j]), fill |-> ts[j].fill] : j \in 1..Len(ts) }

\* the tiles sit at whole single-tile grid positions (i, j) and are filled
\* A exactly when i + j is even
CheckerboardOf(placed, size) ==
    \A p \in placed :
        LET i == Div(2, p.c.x, size.w)
            j == Div(2, p.c.y, size.h)
        IN  /\ IsInteger(i) /\ IsInteger(j)
            /\ p.fill = FillOf(i.a + j.a)

\* no tile has a tile of its own fill across one of its four edges
NoAdjacentSameFill(placed, size) ==
    \A p \in placed :
        \A step \in { Pt(size.w, Q(0)), Pt(Neg(size.w), Q(0)),
                      Pt(Q(0), size.h), Pt(Q(0), Neg(size.h)) } :
            [c |-> PAdd(p.c, step), fill |-> p.fill] \notin placed

\* C23: in every rotational motif (triangle, square rotate90, hexagon
\* rotate120) copy k is filled A when k is even and B when k is odd; in the
\* square translate and glide backgrounds the tile at single-tile grid
\* position (i, j) is filled A exactly when i + j is even, and no two
\* edge-adjacent tiles share a fill.
C23_FillAlternation ==
    /\ (Rendered /\ RotationalMotif) => CopiesAlternate(tiles)
    /\ (LatticeRender /\ shapeType = "square" /\ transformType \in {"translate", "glide"}) =>
           /\ CheckerboardOf(FilledCenters(tiles), SqBaseSize)
           /\ NoAdjacentSameFill(FilledCenters(tiles), SqBaseSize)

C23_Witness ==
    /\ LatticeRender /\ shapeType = "square" /\ transformType = "glide"
    /\ range = DefaultRange
    /\ [c |-> Pt(Neg(SqBaseSize.w), Q(0)), fill |-> "B"] \in FilledCenters(tiles)
    /\ [c |-> Pt(Neg(SqBaseSize.w), Neg(SqBaseSize.h)), fill |-> "A"] \in FilledCenters(tiles)

-----------------------------------------------------------------------------
(* Derived edges in the editor (SpecApp) *)

\* the (driving edge, derived edge) pairs of a shape and mode
DerivedPairs(shape, mode, sym) ==
    IF shape = "triangle" THEN { << TriDriven, TriPaired(sym) >> }
    ELSE IF shape = "hexagon"
    THEN (IF mode = "rotate120" THEN { << 1, 0 >>, << 3, 2 >>, << 5, 4 >> }
          ELSE { << 1, 4 >>, << 3, 0 >>, << 5, 2 >> })
    ELSE (IF mode = "rotate90" THEN { << SqTop, SqRight(sym) >>, << SqDriven, SqLeft >> }
          ELSE { << SqTop, SqDriven >>, << SqRight(sym), SqLeft >> })

\* q on the segment c -> d is what the mode's mapping makes of p on a -> b
MappingHolds(shape, mode, bv, p, a, b, q, c, d) ==
    LET n == Rad(shape)
        tp == ParamsOf(n, p, a, b)
        tq == ParamsOf(n, q, c, d)
        off == PSub(p, Midpoint(n, a, b))
    IN  IF shape = "triangle" \/ mode = "rotate120"
        THEN tq = [t |-> Sub(Q(1), tp.t), d |-> Neg(tp.d)]
        ELSE IF mode = "translate" THEN q = PAdd(Midpoint(n, c, d), off)
        ELSE IF mode = "rotate90" THEN q = PAdd(Midpoint(n, c, d), Pt(Neg(off.y), off.x))
        ELSE IF shape = "hexagon" THEN tq = [t |-> tp.t, d |-> Neg(tp.d)]
        ELSE LET bc == Centroid(n, bv)
                 through == Pt(Sub(Mul(n, Q(2), bc.x), p.x), Sub(Mul(n, Q(2), bc.y), p.y))
             IN  q = (IF c.y = d.y
                      THEN Pt(through.x, Sub(Mul(n, Q(2), c.y), through.y))
                      ELSE Pt(Sub(Mul(n, Q(2), c.x), through.x), through.y))

\* every derived edge of the map holds the mapping of its driving edge
DerivedConsistent(shape, mode, sym, cur) ==
    LET bv == getBaseVertices(shape)
        ne == NumEdges(shape)
    IN  \A pr \in DerivedPairs(shape, mode, sym) :
            /\ Len(cur[pr[2]]) = Len(cur[pr[1]])
            /\ \A k \in 1..Len(cur[pr[1]]) :
                  MappingHolds(shape, mode, bv, cur[pr[1]][k], bv[pr[1]], bv[(pr[1] + 1) % ne],
                               cur[pr[2]][k], bv[pr[2]], bv[(pr[2] + 1) % ne])

\* C24: in every reachable editor state, once the effects of the last
\* update have run, each derived edge's control point is the current mode's
\* mapping of its driving edge's control point.
C24_DerivedFollowsDriving ==
    pending = {} =>
        DerivedConsistent(shapeType, transformType, triSymmetry,
                          CurrentEdgePaths(shapeType, edgePaths, triSymmetry))

-----------------------------------------------------------------------------
(* SpecShell: the shape and mode buttons of the sidebar together with the  *)
(* demo buttons of the toolbar and the overlays.  The sidebar is rendered  *)
(* in every state; the start button is rendered while demoMode is false.   *)

InitShell == InitApp

NextShell ==
    \/ \E s \in Shapes : SelectShape(s)
    \/ \E m \in AllModes : SelectTransform(m)
    \/ EffectShape
    \/ EffectTransform
    \/ StartDemo
    \/ StopDemo
    \/ NextDemoStep
    \/ PrevDemoStep
    \/ NextSquareStep
    \/ PrevSquareStep
    \/ StopSquareDemo
    \/ EffectAuto

SpecShell == InitShell /\ [][NextShell]_vars

\* C25: at most one demo is active at any time: in no reachable state are
\* demoMode and squareDemoMode both true, under any sequence of shape
\* switches, demo starts and demo stops.
C25_OneDemoAtATime == ~(demoMode /\ squareDemoMode)

-----------------------------------------------------------------------------
(* SpecRewind: a running triangle or hexagon demo in which, from a state a *)
(* press of `next` or the fast-forward effect has committed, the user      *)
(* presses only `previous`.  The effect runs after every commit that       *)
(* changed its dependencies, and the user keeps pressing.                  *)

DemoKindOf(shape, mode) ==
    IF shape = "triangle" THEN "triangle"
    ELSE IF mode = "rotate120" THEN "hexRotate"
    ELSE "hexGrid"

\* the steps a commit can leave in demoStep: 1 from the start button, up to
\* 13 from `next`, down to the minimum from `previous`, and the step the
\* fast-forward effect sets
CommittedSteps(shape, kind) ==
    (MinStep(shape)..13) \cup { 6 + DemoCentersLength(kind) }

InitRewind ==
    /\ shapeType \in {"triangle", "hexagon"}
    /\ transformType \in AppModesOf(shapeType)
    /\ triSymmetry = "cw"
    /\ edgePaths = EmptyPaths
    /\ activePoint = NoPoint
    /\ demoMode = TRUE
    /\ demoCenters = DemoKindOf(shapeType, transformType)
    /\ demoStep \in CommittedSteps(shapeType, demoCenters)
    /\ squareDemoMode = FALSE /\ squareDemoStep = 0
    /\ pending = {"auto"}
    /\ call = NoCall
    /\ range = 0 /\ tiles = << >> /\ marker = NoMarker
    /\ pc = "rewind"

NextRewind ==
    \/ PrevDemoStep
    \/ EffectAuto

SpecRewind ==
    InitRewind /\ [][NextRewind]_vars /\ WF_vars(PrevDemoStep) /\ WF_vars(EffectAuto)

\* C26: in a running triangle or hexagon demo repeated presses of
\* `previous` eventually bring the settled step counter back to the minimum
\* step, from every step the demo can be at.
C26_PreviousReachesMinimum ==
    <>(pending = {} /\ demoStep = MinStep(shapeType))

-----------------------------------------------------------------------------
(* Every render shows a tile (SpecRender) *)

\* the step of the demo that is rendered
ShownStep == IF squareDemoMode THEN squareDemoStep ELSE demoStep

\* C27: for every shape and every transform mode selectable for it the
\* render emits at least one tile placement, outside demo mode (at the
\* default grid range App renders with) and at every demo step >= 1.
C27_RenderShowsATile ==
    (Rendered /\ range = DefaultRange /\ (DemoRender => ShownStep >= 1)) => Len(tiles) >= 1

-----------------------------------------------------------------------------
(* The shape of the effective edge-path map (SpecApp) *)

\* the number of control points an edge of the shape is to hold
PointsOnEdge(shape, sym, e) == IF shape = "triangle" /\ e = TriSpare(sym) THEN 2 ELSE 1

\* C28: in every reachable editor state the effective edge-path map has an
\* entry for every edge index 0..N-1 of the current shape, and each entry
\* holds exactly one control point, except the triangle's spare edge, which
\* holds exactly two.
C28_MapHasOnePointPerEdge ==
    LET cur == CurrentEdgePaths(shapeType, edgePaths, triSymmetry)
    IN  \A e \in 0..(NumEdges(shapeType) - 1) :
            /\ e \in DOMAIN cur
            /\ Len(cur[e]) = PointsOnEdge(shapeType, triSymmetry, e)


\* two drags have been stored: the triangle's driven edge and its spare edge
\* both hold edited points
C28_Witness ==
    /\ shapeType = "triangle" /\ pending = {} /\ call.count = 2
    /\ 1 \in DOMAIN edgePaths /\ 2 \in DOMAIN edgePaths
    /\ edgePaths[1] # DefaultPaths("triangle", triSymmetry)[1]
    /\ edgePaths[2] # DefaultPaths("triangle", triSymmetry)[2]
    /\ Len(edgePaths[2]) = 2

-----------------------------------------------------------------------------
(* The mode fits the shape (SpecApp) *)

\* the mode is one the current shape's panel offers
ModeFitsShape ==
    /\ shapeType = "square" => transformType \in {"rotate90", "translate", "glide"}
    /\ shapeType = "hexagon" => transformType \in {"rotate120", "translate", "glide"}

\* a step in which the effect of a shape switch runs
ShapeEffectRuns == "shape" \in pending /\ "shape" \notin pending'

\* C29: once effects have settled the transform mode is one that applies to
\* the current shape, and every switch to the square leaves the mode at
\* rotate90 and every switch to the hexagon leaves it at rotate120.
C29_ModeFitsShape ==
    /\ [](pending = {} => ModeFitsShape)
    /\ [][ShapeEffectRuns =>
            /\ shapeType' = "square" => transformType' = "rotate90"
            /\ shapeType' = "hexagon" => transformType' = "rotate120"]_vars
    /\ [][("transform" \in pending /\ "transform" \notin pending') =>
            transformType' = transformType]_vars

\* the hexagon has been selected after a drag on the square, and its effects
\* have run
C29_Witness ==
    /\ Switched /\ shapeType = "hexagon" /\ transformType = "rotate120"
    /\ call.count > 0 /\ call.bv = getBaseVertices("square")

-----------------------------------------------------------------------------
(* The demo never takes a tile away (SpecRender) *)

\* what the demo of the rendered shape and mode emits at step st
DemoTilesAt(st) ==
    IF squareDemoMode THEN buildSquareDemoTiles(transformType, st)
    ELSE IF shapeType = "triangle"
    THEN Triangle(triSymmetry, TRUE, st, DemoCentersOf(demoCenters), range)
    ELSE Hexagon(transformType, TRUE, st)

\* the last step of the demo of the rendered shape
LastStep ==
    IF squareDemoMode THEN 4 + 80
    ELSE IF shapeType = "triangle" THEN 6 + TriDemoLength
    ELSE HexStepCap

\* every placement of ts is a placement of us, and us has at least as many tiles
ShownAlsoIn(ts, us) ==
    /\ Len(ts) <= Len(us)
    /\ \A i \in 1..Len(ts) : PlacementOf(ts[i]) = PlacementOf(us[i])

\* C30: for every shape and mode the tile placements a demo emits at step s
\* are among those it emits at step s + 1, so the number of tiles shown
\* never decreases as the step counter advances.
C30_DemoNeverRemovesTiles ==
    (DemoRender /\ ShownStep < LastStep) =>
        /\ ShownAlsoIn(tiles, DemoTilesAt(ShownStep + 1))
        /\ PlacementsOf(tiles) \subseteq PlacementsOf(DemoTilesAt(ShownStep + 1))

C30_Witness ==
    /\ DemoRender /\ shapeType = "hexagon" /\ transformType = "translate"
    /\ ShownStep = 3
    /\ Len(tiles) = 3
    /\ Len(DemoTilesAt(ShownStep + 1)) = 6

=============================================================================
